---- MODULE Spec2Model ----
(***************************************************************************)
(* JWTBench (thisisdkyadav/jwt): the token decoder, the signature          *)
(* verifier's expiration check and the lifetime visualizer, as state       *)
(* machines over the React components' state.                              *)
(*                                                                         *)
(* Text is a sequence of character codes (Unicode code points), a byte     *)
(* string a sequence of 0..255.  JavaScript values are records             *)
(* [kind |-> ..., val |-> ...]; an object's val is the sequence of its     *)
(* <<key, value>> members in property order.                               *)
(***************************************************************************)
EXTENDS Integers, Sequences, FiniteSets, TLC

(***************************************************************************)
(* Bounds of the model.                                                    *)
(***************************************************************************)
\* the wall clock runs over 0..MaxClock (and the one instant of scenario D)
MaxClock == 3
\* a time claim of an enumerated payload is absent or one of 0..MaxClaim
MaxClaim == 3
\* an input carries up to MaxPad white-space characters at either end
MaxPad == 1
\* an input has up to MaxDots dots
MaxDots == 3

\* up to MaxInFlight verifications, or key generations, await the provider
\* at once
MaxInFlight == 1
\* up to MaxGenerating handleGenerate calls await generateJwt at once
MaxGenerating == 2

\* the longest secret typed into the strength checker
MaxSecret == 17

\* the largest entropy getStrength is called with on its own
MaxEntropy == 61

(***************************************************************************)
(* JavaScript values.                                                      *)
(***************************************************************************)
JsNull == [kind |-> "null", val |-> 0]

JsUndefined == [kind |-> "undefined", val |-> 0]

JsNum(n) == [kind |-> "number", val |-> n]

JsStr(s) == [kind |-> "string", val |-> s]

JsBool(b) == [kind |-> "boolean", val |-> b]

JsObj(members) == [kind |-> "object", val |-> members]

JsArr(elems) == [kind |-> "array", val |-> elems]

\* NaN, and Infinity with its sign (1 or -1)
JsNaN == [kind |-> "NaN", val |-> 0]

JsInfinity(sign) == [kind |-> "Infinity", val |-> sign]

\* ToBoolean, as applied by !x, x && y, x || y
Truthy(v) ==
    CASE v.kind = "null" -> FALSE
      [] v.kind = "undefined" -> FALSE
      [] v.kind = "number" -> v.val # 0
      [] v.kind = "string" -> Len(v.val) > 0
      [] v.kind = "boolean" -> v.val
      [] v.kind = "NaN" -> FALSE
      [] OTHER -> TRUE

\* a || b
JsOr(a, b) == IF Truthy(a) THEN a ELSE b

\* the members of an object that carry the key k
KeyIndexes(members, k) == {i \in 1..Len(members) : members[i][1] = k}

\* payload?.k : undefined on null/undefined and on a missing property
GetProp(v, k) ==
    IF v.kind # "object" THEN JsUndefined
    ELSE IF KeyIndexes(v.val, k) = {} THEN JsUndefined
    ELSE v.val[CHOOSE i \in KeyIndexes(v.val, k) : TRUE][2]

\* obj[k] = x as JSON.parse does it: a repeated key keeps its place and
\* takes the later value
PutProp(members, k, x) ==
    IF KeyIndexes(members, k) = {} THEN Append(members, <<k, x>>)
    ELSE [i \in 1..Len(members) |->
            IF members[i][1] = k THEN <<k, x>> ELSE members[i]]

(***************************************************************************)
(* String.prototype.trim and String.prototype.split(".").                  *)
(***************************************************************************)
\* white space and line terminators among the codes the model uses
WhiteSpace == {9, 10, 13, 32}

Dot == <<46>>

RECURSIVE TrimStart(_)
TrimStart(s) ==
    IF s # <<>> /\ Head(s) \in WhiteSpace THEN TrimStart(Tail(s)) ELSE s

RECURSIVE TrimEnd(_)
TrimEnd(s) ==
    IF s # <<>> /\ s[Len(s)] \in WhiteSpace
    THEN TrimEnd(SubSeq(s, 1, Len(s) - 1))
    ELSE s

\* no trim at all
NoTrim(s) == s

\* String.prototype.trim
Trim(s) == TrimEnd(TrimStart(s))

DotPositions(s) == {i \in 1..Len(s) : s[i] = Dot[1]}

\* the position of the k-th dot of s
NthDot(s, k) ==
    CHOOSE i \in DotPositions(s) :
        Cardinality({j \in DotPositions(s) : j < i}) = k - 1

\* s.split("."): one more part than there are dots, "" gives [""]
Split(s) ==
    LET n == Cardinality(DotPositions(s))
    IN [k \in 1..(n + 1) |->
          SubSeq(s, IF k = 1 THEN 1 ELSE NthDot(s, k - 1) + 1,
                    IF k = n + 1 THEN Len(s) ELSE NthDot(s, k) - 1)]

\* chunks[lo] \o ... \o chunks[hi], by halves
RECURSIVE Flatten(_, _, _)
Flatten(chunks, lo, hi) ==
    IF lo > hi THEN <<>>
    ELSE IF lo = hi THEN chunks[lo]
    ELSE Flatten(chunks, lo, (lo + hi) \div 2)
         \o Flatten(chunks, ((lo + hi) \div 2) + 1, hi)

(***************************************************************************)
(* jose base64url.encode / base64url.decode (no padding, alphabet A-Z a-z  *)
(* 0-9 - _).                                                               *)
(***************************************************************************)
B64Chars == (65..90) \cup (97..122) \cup (48..57) \cup {45, 95}

B64Char(i) ==
    CASE i \in 0..25 -> i + 65
      [] i \in 26..51 -> i + 71
      [] i \in 52..61 -> i - 4
      [] i = 62 -> 45
      [] OTHER -> 95

B64Index(c) ==
    CASE c \in 65..90 -> c - 65
      [] c \in 97..122 -> c - 71
      [] c \in 48..57 -> c + 4
      [] c = 45 -> 62
      [] OTHER -> 63

Min(a, b) == IF a < b THEN a ELSE b

\* the characters of a group of 1, 2 or 3 bytes
B64EncodeGroup(b) ==
    IF Len(b) = 1
    THEN <<B64Char(b[1] \div 4), B64Char((b[1] % 4) * 16)>>
    ELSE IF Len(b) = 2
    THEN <<B64Char(b[1] \div 4),
           B64Char((b[1] % 4) * 16 + (b[2] \div 16)),
           B64Char((b[2] % 16) * 4)>>
    ELSE <<B64Char(b[1] \div 4),
           B64Char((b[1] % 4) * 16 + (b[2] \div 16)),
           B64Char((b[2] % 16) * 4 + (b[3] \div 64)),
           B64Char(b[3] % 64)>>

B64Encode(b) ==
    Flatten([g \in 1..((Len(b) + 2) \div 3) |->
                B64EncodeGroup(SubSeq(b, 3 * g - 2, Min(3 * g, Len(b))))],
            1, (Len(b) + 2) \div 3)

\* the bytes of a group of 2, 3 or 4 alphabet characters; the bits left over
\* in a group of 2 or 3 are dropped
B64DecodeGroup(c) ==
    IF Len(c) = 2
    THEN <<B64Index(c[1]) * 4 + (B64Index(c[2]) \div 16)>>
    ELSE IF Len(c) = 3
    THEN <<B64Index(c[1]) * 4 + (B64Index(c[2]) \div 16),
           (B64Index(c[2]) % 16) * 16 + (B64Index(c[3]) \div 4)>>
    ELSE <<B64Index(c[1]) * 4 + (B64Index(c[2]) \div 16),
           (B64Index(c[2]) % 16) * 16 + (B64Index(c[3]) \div 4),
           (B64Index(c[3]) % 4) * 64 + B64Index(c[4])>>

B64Bytes(c) ==
    Flatten([g \in 1..((Len(c) + 3) \div 4) |->
                B64DecodeGroup(SubSeq(c, 4 * g - 3, Min(4 * g, Len(c))))],
            1, (Len(c) + 3) \div 4)

StripWhiteSpace(s) == SelectSeq(s, LAMBDA c : c \notin WhiteSpace)

\* base64url.decode: white space is skipped; a character outside the
\* alphabet or a length of 1 modulo 4 throws (ok = FALSE)
B64Decode(s) ==
    LET c == StripWhiteSpace(s)
    IN IF (\E i \in 1..Len(c) : c[i] \notin B64Chars) \/ Len(c) % 4 = 1
       THEN [ok |-> FALSE, bytes |-> <<>>]
       ELSE [ok |-> TRUE, bytes |-> B64Bytes(c)]

(***************************************************************************)
(* TextEncoder.encode and new TextDecoder().decode (UTF-8, not fatal: a    *)
(* malformed sequence decodes to U+FFFD, nothing is thrown).               *)
(***************************************************************************)
Replacement == <<65533>>

IsHighSurrogate(u) == u \in 55296..56319

IsLowSurrogate(u) == u \in 56320..57343

Utf8OfCodePoint(cp) ==
    IF cp < 128 THEN <<cp>>
    ELSE IF cp < 2048 THEN <<192 + (cp \div 64), 128 + (cp % 64)>>
    ELSE IF cp < 65536
    THEN <<224 + (cp \div 4096), 128 + ((cp \div 64) % 64), 128 + (cp % 64)>>
    ELSE <<240 + (cp \div 262144), 128 + ((cp \div 4096) % 64),
           128 + ((cp \div 64) % 64), 128 + (cp % 64)>>

\* the first (second) half of a surrogate pair at position i of s
PairStart(s, i) == IsHighSurrogate(s[i]) /\ i < Len(s) /\ IsLowSurrogate(s[i + 1])

PairEnd(s, i) == IsLowSurrogate(s[i]) /\ i > 1 /\ IsHighSurrogate(s[i - 1])

\* a surrogate pair is one code point, a lone surrogate becomes U+FFFD
Utf8Encode(s) ==
    Flatten([i \in 1..Len(s) |->
                IF PairStart(s, i)
                THEN Utf8OfCodePoint(65536 + (s[i] - 55296) * 1024 + (s[i + 1] - 56320))
                ELSE IF PairEnd(s, i) THEN <<>>
                ELSE IF IsHighSurrogate(s[i]) \/ IsLowSurrogate(s[i])
                THEN Utf8OfCodePoint(Replacement[1])
                ELSE Utf8OfCodePoint(s[i])],
            1, Len(s))

Utf16OfCodePoint(cp) ==
    IF cp < 65536 THEN <<cp>>
    ELSE <<55296 + ((cp - 65536) \div 1024), 56320 + ((cp - 65536) % 1024)>>

\* the decoder's state: bytes still needed, the code point so far, the
\* range the next continuation byte must lie in, the text decoded so far
\* and whether a U+FFFD was substituted
Utf8Start(text, bad) ==
    [needed |-> 0, cp |-> 0, lower |-> 128, upper |-> 191, text |-> text,
     malformed |-> bad]

\* one byte x in state st; again tells that x is to be read once more
Utf8Step(st, x) ==
    IF st.needed = 0
    THEN IF x < 128
         THEN [next |-> Utf8Start(Append(st.text, x), st.malformed), again |-> FALSE]
         ELSE IF x \in 194..223
         THEN [next |-> [st EXCEPT !.needed = 1, !.cp = x % 32], again |-> FALSE]
         ELSE IF x \in 224..239
         THEN [next |-> [st EXCEPT !.needed = 2, !.cp = x % 16,
                                   !.lower = IF x = 224 THEN 160 ELSE 128,
                                   !.upper = IF x = 237 THEN 159 ELSE 191],
               again |-> FALSE]
         ELSE IF x \in 240..244
         THEN [next |-> [st EXCEPT !.needed = 3, !.cp = x % 8,
                                   !.lower = IF x = 240 THEN 144 ELSE 128,
                                   !.upper = IF x = 244 THEN 143 ELSE 191],
               again |-> FALSE]
         ELSE [next |-> Utf8Start(st.text \o Replacement, TRUE), again |-> FALSE]
    ELSE IF x \notin st.lower..st.upper
    THEN [next |-> Utf8Start(st.text \o Replacement, TRUE), again |-> TRUE]
    ELSE IF st.needed = 1
    THEN [next |-> Utf8Start(st.text \o Utf16OfCodePoint(st.cp * 64 + (x % 64)),
                             st.malformed),
          again |-> FALSE]
    ELSE [next |-> [st EXCEPT !.needed = st.needed - 1,
                              !.cp = st.cp * 64 + (x % 64),
                              !.lower = 128, !.upper = 191],
          again |-> FALSE]

RECURSIVE Utf8Scan(_, _, _)
Utf8Scan(b, i, st) ==
    IF i > Len(b)
    THEN IF st.needed # 0 THEN Utf8Start(st.text \o Replacement, TRUE) ELSE st
    ELSE LET r == Utf8Step(st, b[i])
         IN Utf8Scan(b, IF r.again THEN i ELSE i + 1, r.next)

\* the bytes as one character each, as atob leaves them
BinaryString(b) == [text |-> b, malformed |-> FALSE]

\* decode(bytes): a leading byte order mark is dropped
Utf8Decode(b) ==
    LET r == Utf8Scan(b, 1, Utf8Start(<<>>, FALSE))
    IN [text |-> IF r.text # <<>> /\ r.text[1] = 65279 THEN Tail(r.text) ELSE r.text,
        malformed |-> r.malformed]

(***************************************************************************)
(* JSON.stringify (no indentation) and JSON.parse, for integers, strings,  *)
(* booleans, null, arrays and objects (numbers with a fraction or an       *)
(* exponent are outside the model and appear in no input).                 *)
(***************************************************************************)
HexDigits == <<48, 49, 50, 51, 52, 53, 54, 55, 56, 57, 97, 98, 99, 100, 101, 102>>

Hex4(u) ==
    <<HexDigits[((u \div 4096) % 16) + 1], HexDigits[((u \div 256) % 16) + 1],
      HexDigits[((u \div 16) % 16) + 1], HexDigits[(u % 16) + 1]>>

IsHex(c) == c \in (48..57) \cup (97..102) \cup (65..70)

HexValue(c) ==
    IF c \in 48..57 THEN c - 48
    ELSE IF c \in 97..102 THEN c - 87
    ELSE c - 55

RECURSIVE Digits(_)
Digits(n) ==
    IF n < 10 THEN <<48 + n>> ELSE Append(Digits(n \div 10), 48 + (n % 10))

NumberText(n) == IF n < 0 THEN <<45>> \o Digits(0 - n) ELSE Digits(n)

\* QuoteJSONString without the surrounding quotes: a lone surrogate and a
\* control character are escaped
QuoteBody(s) ==
    Flatten([i \in 1..Len(s) |->
                IF PairStart(s, i) \/ PairEnd(s, i) THEN <<s[i]>>
                ELSE CASE s[i] = 34 -> <<92, 34>>
                       [] s[i] = 92 -> <<92, 92>>
                       [] s[i] = 8 -> <<92, 98>>
                       [] s[i] = 12 -> <<92, 102>>
                       [] s[i] = 10 -> <<92, 110>>
                       [] s[i] = 13 -> <<92, 114>>
                       [] s[i] = 9 -> <<92, 116>>
                       [] s[i] < 32 \/ IsHighSurrogate(s[i]) \/ IsLowSurrogate(s[i])
                            -> <<92, 117>> \o Hex4(s[i])
                       [] OTHER -> <<s[i]>>],
            1, Len(s))

Quote(s) == <<34>> \o QuoteBody(s) \o <<34>>

RECURSIVE Stringify(_)
RECURSIVE StringifyList(_, _, _)
\* the members or elements from index i on, separated by commas
StringifyList(v, items, i) ==
    IF i > Len(items) THEN <<>>
    ELSE (IF i > 1 THEN <<44>> ELSE <<>>)
         \o (IF v.kind = "object"
             THEN Quote(items[i][1]) \o <<58>> \o Stringify(items[i][2])
             ELSE Stringify(items[i]))
         \o StringifyList(v, items, i + 1)

Stringify(v) ==
    CASE v.kind = "number" -> NumberText(v.val)
      [] v.kind = "string" -> Quote(v.val)
      [] v.kind = "boolean" ->
            IF v.val THEN <<116, 114, 117, 101>> ELSE <<102, 97, 108, 115, 101>>
      [] v.kind = "object" -> <<123>> \o StringifyList(v, v.val, 1) \o <<125>>
      [] v.kind = "array" -> <<91>> \o StringifyList(v, v.val, 1) \o <<93>>
      [] OTHER -> <<110, 117, 108, 108>>

\* the result of a failed parse (a SyntaxError is thrown)
ParseFail == [ok |-> FALSE, val |-> JsNull, pos |-> 0]

ParseOk(v, p) == [ok |-> TRUE, val |-> v, pos |-> p]

JsonWhiteSpace == {9, 10, 13, 32}

RECURSIVE SkipWs(_, _)
SkipWs(s, i) ==
    IF i <= Len(s) /\ s[i] \in JsonWhiteSpace THEN SkipWs(s, i + 1) ELSE i

At(s, i, c) == i <= Len(s) /\ s[i] = c

\* the literal lit (true, false, null) at position i
ParseLiteral(s, i, lit, v) ==
    IF i + Len(lit) - 1 <= Len(s) /\ SubSeq(s, i, i + Len(lit) - 1) = lit
    THEN ParseOk(v, i + Len(lit))
    ELSE ParseFail

RECURSIVE DigitRun(_, _, _)
\* the value and end of the run of digits from i on, acc so far
DigitRun(s, i, acc) ==
    IF i <= Len(s) /\ s[i] \in 48..57
    THEN DigitRun(s, i + 1, acc * 10 + (s[i] - 48))
    ELSE [val |-> acc, pos |-> i]

\* -? ( 0 | [1-9][0-9]* )
ParseNumber(s, i) ==
    LET neg == At(s, i, 45)
        j == IF neg THEN i + 1 ELSE i
    IN IF ~(j <= Len(s) /\ s[j] \in 48..57) THEN ParseFail
       ELSE LET r == IF s[j] = 48 THEN [val |-> 0, pos |-> j + 1]
                     ELSE DigitRun(s, j, 0)
            IN ParseOk(JsNum(IF neg THEN 0 - r.val ELSE r.val), r.pos)

RECURSIVE ParseStringBody(_, _, _)
\* the characters after an opening quote, up to the closing one
ParseStringBody(s, i, acc) ==
    IF i > Len(s) THEN ParseFail
    ELSE LET c == s[i]
         IN IF c = 34 THEN ParseOk(JsStr(acc), i + 1)
            ELSE IF c < 32 THEN ParseFail
            ELSE IF c # 92 THEN ParseStringBody(s, i + 1, Append(acc, c))
            ELSE IF i + 1 > Len(s) THEN ParseFail
            ELSE LET e == s[i + 1]
                 IN IF e \in {34, 92, 47}
                    THEN ParseStringBody(s, i + 2, Append(acc, e))
                    ELSE IF e \in {98, 102, 110, 114, 116}
                    THEN ParseStringBody(s, i + 2, Append(acc,
                            CASE e = 98 -> 8 [] e = 102 -> 12 [] e = 110 -> 10
                              [] e = 114 -> 13 [] OTHER -> 9))
                    ELSE IF e = 117 /\ i + 5 <= Len(s)
                            /\ \A k \in 2..5 : IsHex(s[i + k])
                    THEN ParseStringBody(s, i + 6, Append(acc,
                            HexValue(s[i + 2]) * 4096 + HexValue(s[i + 3]) * 256
                            + HexValue(s[i + 4]) * 16 + HexValue(s[i + 5])))
                    ELSE ParseFail

RECURSIVE ParseValue(_, _)
RECURSIVE ParseMembers(_, _, _)
RECURSIVE ParseElements(_, _, _)
\* the members of an object from position i (a key) on
ParseMembers(s, i, acc) ==
    IF ~At(s, i, 34) THEN ParseFail
    ELSE LET k == ParseStringBody(s, i + 1, <<>>)
         IN IF ~k.ok THEN ParseFail
            ELSE LET c == SkipWs(s, k.pos)
                 IN IF ~At(s, c, 58) THEN ParseFail
                    ELSE LET v == ParseValue(s, c + 1)
                         IN IF ~v.ok THEN ParseFail
                            ELSE LET n == SkipWs(s, v.pos)
                                     m == PutProp(acc, k.val.val, v.val)
                                 IN IF At(s, n, 125) THEN ParseOk(JsObj(m), n + 1)
                                    ELSE IF At(s, n, 44)
                                    THEN ParseMembers(s, SkipWs(s, n + 1), m)
                                    ELSE ParseFail

\* the elements of an array from position i on
ParseElements(s, i, acc) ==
    LET v == ParseValue(s, i)
    IN IF ~v.ok THEN ParseFail
       ELSE LET n == SkipWs(s, v.pos)
                m == Append(acc, v.val)
            IN IF At(s, n, 93) THEN ParseOk(JsArr(m), n + 1)
               ELSE IF At(s, n, 44) THEN ParseElements(s, n + 1, m)
               ELSE ParseFail

ParseValue(s, i0) ==
    LET i == SkipWs(s, i0)
    IN IF i > Len(s) THEN ParseFail
       ELSE LET c == s[i]
            IN CASE c = 123 ->
                      LET j == SkipWs(s, i + 1)
                      IN IF At(s, j, 125) THEN ParseOk(JsObj(<<>>), j + 1)
                         ELSE ParseMembers(s, j, <<>>)
                 [] c = 91 ->
                      LET j == SkipWs(s, i + 1)
                      IN IF At(s, j, 93) THEN ParseOk(JsArr(<<>>), j + 1)
                         ELSE ParseElements(s, j, <<>>)
                 [] c = 34 -> ParseStringBody(s, i + 1, <<>>)
                 [] c = 116 -> ParseLiteral(s, i, <<116, 114, 117, 101>>, JsBool(TRUE))
                 [] c = 102 ->
                      ParseLiteral(s, i, <<102, 97, 108, 115, 101>>, JsBool(FALSE))
                 [] c = 110 -> ParseLiteral(s, i, <<110, 117, 108, 108>>, JsNull)
                 [] c = 45 \/ c \in 48..57 -> ParseNumber(s, i)
                 [] OTHER -> ParseFail

\* JSON.parse(text): one value, then only white space
JsonParse(s) ==
    LET r == ParseValue(s, 1)
    IN IF r.ok /\ SkipWs(s, r.pos) > Len(s) THEN r ELSE ParseFail

(***************************************************************************)
(* parseJwtPart and the decode memo of TokenDecoder.                       *)
(***************************************************************************)
\* the outcome of a try block: threw tells that a step raised
Raised == [threw |-> TRUE, val |-> JsUndefined]

Returned(v) == [threw |-> FALSE, val |-> v]

\* return JSON.parse(json), j being what JsonParse makes of json
parsedJson(j) == IF j.ok THEN Returned(j.val) ELSE Raised

\* new TextDecoder().decode(bytes) and JSON.parse, b being what
\* base64url.decode makes of the segment
decodedBytes(b) ==
    IF b.ok THEN parsedJson(JsonParse(Utf8Decode(b.bytes).text)) ELSE Raised

\* the try block: base64url.decode, TextDecoder.decode, JSON.parse
parseJwtPartTry(part) == decodedBytes(B64Decode(part))

\* catch { return null }
caught(r) == IF r.threw THEN Returned(JsNull) ELSE r

\* try { ... } catch { return null }
parseJwtPart(part) == caught(parseJwtPartTry(part))

StructureError == "JWT must have 3 parts (header.payload.signature)"

\* what the useMemo of TokenDecoder returns; threw tells that the callback
\* raised, which would abort the render
Decoded(h, p, sig, err, threw) ==
    [header |-> h, payload |-> p, signature |-> sig, error |-> err, threw |-> threw]

\* decodedParts giving up on the payload when the header does not decode
decodedPartsHeaderFirst(h, p, sig) ==
    Decoded(h.val, IF h.val = JsNull THEN JsNull ELSE p.val, sig, "",
            h.threw \/ p.threw)

\* return { header, payload, signature: parts[2], error: "" }
decodedParts(h, p, sig) == Decoded(h.val, p.val, sig, "", h.threw \/ p.threw)

\* decodeParts with the segment count tested by < 3 instead of !== 3
decodePartsAtLeast3(parts) ==
    IF Len(parts) < 3 THEN Decoded(JsNull, JsNull, <<>>, StructureError, FALSE)
    ELSE decodedParts(parseJwtPart(parts[1]), parseJwtPart(parts[2]), parts[3])

\* the memo from the segment count on, parts being jwt.split(".")
decodeParts(parts) ==
    IF Len(parts) # 3 THEN Decoded(JsNull, JsNull, <<>>, StructureError, FALSE)
    ELSE decodedParts(parseJwtPart(parts[1]), parseJwtPart(parts[2]), parts[3])

\* the useMemo of TokenDecoder over [jwt]
decodeMemo(j) ==
    IF j = <<>> THEN Decoded(JsNull, JsNull, <<>>, "", FALSE)
    ELSE decodeParts(Split(j))

(***************************************************************************)
(* The status evaluators and the timeline of LifetimeVisualizer.  A time   *)
(* claim is a number or undefined, as in the signatures                    *)
(* (iat?: number, nbf?: number, exp?: number); now stands for              *)
(* Math.floor(Date.now() / 1000).                                          *)
(***************************************************************************)
\* getStatus with >= and <= for > and <
getStatusInclusive(iat, nbf, exp, now) ==
    IF Truthy(exp) /\ now >= exp.val THEN "expired"
    ELSE IF Truthy(nbf) /\ now <= nbf.val THEN "not yet valid"
    ELSE IF Truthy(iat) /\ now <= iat.val THEN "not yet valid"
    ELSE "active"

\* getStatus with the nbf and iat rules ahead of the exp rule
getStatusNbfFirst(iat, nbf, exp, now) ==
    IF Truthy(nbf) /\ now < nbf.val THEN "not yet valid"
    ELSE IF Truthy(iat) /\ now < iat.val THEN "not yet valid"
    ELSE IF Truthy(exp) /\ now > exp.val THEN "expired"
    ELSE "active"

\* getStatus testing the claims against undefined instead of for truth
getStatusDefined(iat, nbf, exp, now) ==
    IF exp # JsUndefined /\ now > exp.val THEN "expired"
    ELSE IF nbf # JsUndefined /\ now < nbf.val THEN "not yet valid"
    ELSE IF iat # JsUndefined /\ now < iat.val THEN "not yet valid"
    ELSE "active"

getStatus(iat, nbf, exp, now) ==
    IF Truthy(exp) /\ now > exp.val THEN "expired"
    ELSE IF Truthy(nbf) /\ now < nbf.val THEN "not yet valid"
    ELSE IF Truthy(iat) /\ now < iat.val THEN "not yet valid"
    ELSE "active"

\* `${n} unit`
Duration(n, unit) == [count |-> n, unit |-> unit]

\* formatDuration rounding to the nearest unit instead of truncating
formatDurationRounded(seconds) ==
    IF seconds < 60 THEN Duration(seconds, "seconds")
    ELSE IF seconds < 3600 THEN Duration((seconds + 30) \div 60, "minutes")
    ELSE IF seconds < 86400 THEN Duration((seconds + 1800) \div 3600, "hours")
    ELSE Duration((seconds + 43200) \div 86400, "days")

formatDuration(seconds) ==
    IF seconds < 60 THEN Duration(seconds, "seconds")
    ELSE IF seconds < 3600 THEN Duration(seconds \div 60, "minutes")
    ELSE IF seconds < 86400 THEN Duration(seconds \div 3600, "hours")
    ELSE Duration(seconds \div 86400, "days")

Max(a, b) == IF a > b THEN a ELSE b

\* Math.min(iat || now, nbf || now, now)
timelineMin(iat, nbf, now) ==
    Min(Min(JsOr(iat, JsNum(now)).val, JsOr(nbf, JsNum(now)).val), now)

\* Math.max(exp || now, now)
timelineMax(exp, now) == Max(JsOr(exp, JsNum(now)).val, now)

\* Math.round(((v - min) / (max - min)) * 100) on integers: the quotient is
\* 0/0 or a nonzero number over 0 when max = min, and Math.round takes a
\* half up
roundedPercent(v, min, max) ==
    IF max = min
    THEN IF v = min THEN JsNaN ELSE JsInfinity(IF v > min THEN 1 ELSE -1)
    ELSE JsNum((200 * (v - min) + (max - min)) \div (2 * (max - min)))

\* (v?: number) => (v ? Math.round(...) : 0)
percent(v, min, max) ==
    IF Truthy(v) THEN roundedPercent(v.val, min, max) ELSE JsNum(0)

\* the timeline of one render: min, max and percent of each marker
timelineOf(iat, nbf, exp, now) ==
    LET min == timelineMin(iat, nbf, now)
        max == timelineMax(exp, now)
    IN [min |-> min, max |-> max,
        iat |-> percent(iat, min, max), nbf |-> percent(nbf, min, max),
        exp |-> percent(exp, min, max), now |-> percent(JsNum(now), min, max)]

\* the value of timeRemaining: null, or label, value and negative; seconds
\* is the argument formatDuration was called with
NoSummary ==
    [isNull |-> TRUE, label |-> "", seconds |-> 0, value |-> Duration(0, ""),
     negative |-> FALSE]

Summary(label, seconds, negative) ==
    [isNull |-> FALSE, label |-> label, seconds |-> seconds,
     value |-> formatDuration(seconds), negative |-> negative]

\* timeRemainingOf reading iat before nbf for the time until validity
timeRemainingIatFirst(payload, status, now, exp, nbf, iat) ==
    IF ~Truthy(payload) THEN NoSummary
    ELSE IF status = "expired"
    THEN Summary("Expired", now - JsOr(exp, JsNum(now)).val, TRUE)
    ELSE IF status = "not yet valid"
    THEN Summary("Valid in", JsOr(iat, JsOr(nbf, JsNum(now))).val - now, FALSE)
    ELSE IF Truthy(exp) THEN Summary("Expires in", exp.val - now, FALSE)
    ELSE NoSummary

\* the useMemo of timeRemaining over [payload, status, now, exp, nbf, iat]
timeRemainingOf(payload, status, now, exp, nbf, iat) ==
    IF ~Truthy(payload) THEN NoSummary
    ELSE IF status = "expired"
    THEN Summary("Expired", now - JsOr(exp, JsNum(now)).val, TRUE)
    ELSE IF status = "not yet valid"
    THEN Summary("Valid in", JsOr(nbf, JsOr(iat, JsNum(now))).val - now, FALSE)
    ELSE IF Truthy(exp)
    THEN Summary("Expires in", exp.val - now, FALSE)
    ELSE NoSummary

(***************************************************************************)
(* The inputs: tokens typed or pasted into a textarea.                     *)
(***************************************************************************)
\* base64url(JSON(v)): jose base64url.encode of JSON.stringify(v)
EncodeSegment(v) == B64Encode(Utf8Encode(Stringify(v)))

Join3(a, b, c) == a \o Dot \o b \o Dot \o c

\* "alg": "HS256", "typ": "JWT"
HeaderObject ==
    JsObj(<< << <<97, 108, 103>>, JsStr(<<72, 83, 50, 53, 54>>) >>,
             << <<116, 121, 112>>, JsStr(<<74, 87, 84>>) >> >>)

\* objects encodable as JSON: the default header, the empty object, the sub
\* and iat of the default payload, and one with a two-byte character,
\* characters that stringify escapes, a negative number, a boolean, an array
\* and a null
JsonObjects ==
    << HeaderObject,
       JsObj(<<>>),
       JsObj(<< << <<115, 117, 98>>, JsStr(<<49, 50, 51, 52, 53, 54, 55, 56, 57, 48>>) >>,
                << <<105, 97, 116>>, JsNum(1516239022) >> >>),
       JsObj(<< << <<115>>, JsStr(<<233, 34, 92, 10, 62, 63, 1>>) >>,
                << <<110>>, JsNum(-5) >>,
                << <<108>>, JsArr(<<JsBool(TRUE), JsObj(<< << <<120>>, JsNull >> >>)>>) >> >>) >>

\* segments that are no encoding of an object: "not" (two bytes that are
\* neither UTF-8 nor JSON), "a" (no base64url length), "e$" (no base64url
\* character), "" (no JSON), "ew" (the text {), "bnVsbA" (the text null),
\* the encoding of the bytes 22 FF 22 (a JSON string holding one malformed
\* byte) and the default header with a space inside
OtherSegments ==
    << <<110, 111, 116>>, <<97>>, <<101, 36>>, <<>>,
       B64Encode(<<123>>), B64Encode(<<110, 117, 108, 108>>),
       B64Encode(<<34, 255, 34>>),
       SubSeq(EncodeSegment(HeaderObject), 1, 2) \o <<32>>
         \o SubSeq(EncodeSegment(HeaderObject), 3, Len(EncodeSegment(HeaderObject))) >>

\* the segments of the enumerated tokens: the encodings of JsonObjects, then
\* OtherSegments
Segments ==
    [i \in 1..(Len(JsonObjects) + Len(OtherSegments)) |->
        IF i <= Len(JsonObjects) THEN EncodeSegment(JsonObjects[i])
        ELSE OtherSegments[i - Len(JsonObjects)]]

\* signature segments: "", "jwt" and the signature of scenario A's shape
Signatures == {<<>>, <<106, 119, 116>>, <<83, 102, 45, 95, 99>>}

ThreePartTokens ==
    {Join3(Segments[a], Segments[b], s) :
        a \in 1..Len(Segments), b \in 1..Len(Segments), s \in Signatures}

\* n + 1 copies of seg joined by n dots
RECURSIVE Dotted(_, _)
Dotted(seg, n) == IF n = 0 THEN seg ELSE seg \o Dot \o Dotted(seg, n - 1)

DottedTokens ==
    {Dotted(seg, n) : seg \in {<<>>, <<97>>, Segments[1]}, n \in 0..MaxDots}

\* k white-space characters: spaces, the outermost a line feed
RECURSIVE Pad(_)
Pad(k) == IF k = 0 THEN <<>> ELSE IF k = 1 THEN <<10>> ELSE <<32>> \o Pad(k - 1)

Reverse(s) == [i \in 1..Len(s) |-> s[Len(s) + 1 - i]]

PaddedTokens ==
    {Reverse(Pad(l)) \o tok \o Pad(r) :
        tok \in {<<>>, <<97>>, <<110, 111, 116, 46, 97, 46, 106, 119, 116>>,
                Join3(Segments[1], Segments[3], <<106, 119, 116>>)},
        l \in 0..MaxPad, r \in 0..MaxPad}

DecoderInputs == ThreePartTokens \cup DottedTokens \cup PaddedTokens

\* the names of the claims the components read
KeyIat == <<105, 97, 116>>

KeyNbf == <<110, 98, 102>>

KeyExp == <<101, 120, 112>>

KeyAlg == <<97, 108, 103>>

\* a time claim of a payload: missing, or a number from 0 to MaxClaim
ClaimValues == {JsUndefined} \cup {JsNum(n) : n \in 0..MaxClaim}

Member(k, v) == IF v = JsUndefined THEN <<>> ELSE << <<k, v>> >>

ClaimsObject(iat, nbf, exp) ==
    JsObj(Member(KeyIat, iat) \o Member(KeyNbf, nbf) \o Member(KeyExp, exp))

\* the claims of scenario D, read at the time 2500
ScenarioD == ClaimsObject(JsNum(1000), JsNum(1000), JsNum(2000))

ClaimsObjects ==
    {ClaimsObject(iat, nbf, exp) :
        iat \in ClaimValues, nbf \in ClaimValues, exp \in ClaimValues}
    \cup {ScenarioD}

\* tokens with the empty object as the header and "jwt" as the signature
ClaimsTokens ==
    {Join3(Segments[2], EncodeSegment(o), <<106, 119, 116>>) : o \in ClaimsObjects}

\* tokens whose payload is no object (the number 7, an array, null, no JSON,
\* the empty segment) and tokens whose header names the algorithm ES256 or
\* none
OddTokens ==
    {Join3(Segments[1], B64Encode(<<55>>), <<106, 119, 116>>),
     Join3(Segments[1], B64Encode(<<91, 49, 93>>), <<106, 119, 116>>),
     Join3(Segments[1], Segments[10], <<106, 119, 116>>),
     Join3(Segments[1], Segments[5], <<106, 119, 116>>),
     Join3(Segments[1], <<>>, <<106, 119, 116>>),
     Join3(EncodeSegment(JsObj(<< <<KeyAlg, JsStr(<<69, 83, 50, 53, 54>>)>> >>)),
           Segments[3], <<>>),
     Join3(EncodeSegment(JsObj(<< <<KeyAlg, JsStr(<<110, 111, 110, 101>>)>> >>)),
           Segments[3], <<>>)}

\* what is typed into the components that read the time claims
TimedInputs == ClaimsTokens \cup OddTokens \cup PaddedTokens

\* what is pasted into them
PastedInputs == OddTokens \cup PaddedTokens

\* what is typed into the component that reads exp and nbf only
ExpirationInputs ==
    {Join3(Segments[2], EncodeSegment(ClaimsObject(JsUndefined, nbf, exp)),
           <<106, 119, 116>>) : nbf \in ClaimValues, exp \in ClaimValues}
    \cup PastedInputs

\* exp claims around the steps of formatDuration: a minute, an hour, a day
\* and their doubles, up to MaxClock seconds later
DurationMarks == {0, 60, 120, 3600, 7200, 86400, 172800}

\* what is typed into LifetimeVisualizer on its own: tokens with an exp only
DurationInputs ==
    {Join3(Segments[2],
           EncodeSegment(ClaimsObject(JsUndefined, JsUndefined, JsNum(m + d))),
           <<106, 119, 116>>) : m \in DurationMarks, d \in 0..MaxClock}

TimedTokens == {Trim(raw) : raw \in TimedInputs \cup DurationInputs}

(***************************************************************************)
(* decodeJwt of jose and checkTokenExpiration (README.md).                 *)
(***************************************************************************)
\* if (!isObject(result)) throw new JWTInvalid(...); return result
claimsSet(r) == IF r.threw \/ r.val.kind # "object" THEN Raised ELSE r

\* decodeJwt from the part count on, parts being jwt.split(".")
decodeJwtParts(parts) ==
    IF Len(parts) # 3 \/ parts[2] = <<>> THEN Raised
    ELSE claimsSet(parseJwtPartTry(parts[2]))

\* decodeJwt of jose: three parts, a payload that is not empty, base64url,
\* JSON, and an object as the result; anything else raises
decodeJwt(j) == decodeJwtParts(Split(j))

\* decodeJwt of each token of the model, computed once
decodedJwt == [j \in TimedTokens |-> decodeJwt(j)]

ExpirationStatus(status, message) == [status |-> status, message |-> message]

\* expirationOf with a token expired from the second of its exp on
expirationOfInclusive(decoded, now) ==
    IF decoded.threw
    THEN ExpirationStatus("invalid", "Could not decode token")
    ELSE IF Truthy(GetProp(decoded.val, KeyExp))
            /\ GetProp(decoded.val, KeyExp).val <= now
    THEN ExpirationStatus("expired", "Token has expired")
    ELSE IF Truthy(GetProp(decoded.val, KeyNbf))
            /\ GetProp(decoded.val, KeyNbf).val > now
    THEN ExpirationStatus("notyet", "Token not yet valid")
    ELSE ExpirationStatus("valid", "Token is within validity period")

\* the body of checkTokenExpiration, decoded being the outcome of decodeJwt
expirationOf(decoded, now) ==
    IF decoded.threw
    THEN ExpirationStatus("invalid", "Could not decode token")
    ELSE IF Truthy(GetProp(decoded.val, KeyExp))
            /\ GetProp(decoded.val, KeyExp).val < now
    THEN ExpirationStatus("expired", "Token has expired")
    ELSE IF Truthy(GetProp(decoded.val, KeyNbf))
            /\ GetProp(decoded.val, KeyNbf).val > now
    THEN ExpirationStatus("notyet", "Token not yet valid")
    ELSE ExpirationStatus("valid", "Token is within validity period")

checkTokenExpiration(j, now) == expirationOf(decodedJwt[j], now)

\* useState<{ status: string; message: string } | null>(null)
NoExpirationStatus == ExpirationStatus("", "")

\* the values of ALGORITHMS: HS256, HS384, HS512, RS256, ES256
ALGORITHMS ==
    {<<72, 83, 50, 53, 54>>, <<72, 83, 51, 56, 52>>, <<72, 83, 53, 49, 50>>,
     <<82, 83, 50, 53, 54>>, <<69, 83, 50, 53, 54>>}

(***************************************************************************)
(* verifyJwt (SignatureVerifier.tsx) and generateJwt (TokenEncoder.tsx).   *)
(* The functions of jose are the provider: what a call of one of them      *)
(* does is an input of the model, it resolves or it throws some value.     *)
(***************************************************************************)
\* values a provider function can throw: an Error with a message, a string,
\* anything else
Err(msg) == [kind |-> "Error", message |-> msg]

ThrownString(s) == [kind |-> "string", message |-> s]

ThrownOther == [kind |-> "other", message |-> ""]

ThrownValues ==
    {Err("signature verification failed"), ThrownString("bad key"), ThrownOther}

Resolved == [ok |-> TRUE, thrown |-> ThrownOther]

Rejected(e) == [ok |-> FALSE, thrown |-> e]

ProviderOutcomes == {Resolved} \cup {Rejected(e) : e \in ThrownValues}

\* a call of a provider function, with the algorithm identifier it is given
\* (SignJWT.sign is given none: it reads the header)
ProviderCall(fn, a) == [fn |-> fn, alg |-> a]

StartsWith(s, prefix) ==
    Len(s) >= Len(prefix) /\ SubSeq(s, 1, Len(prefix)) = prefix

PrefixHS == <<72, 83>>

PrefixRS == <<82, 83>>

PrefixES == <<69, 83>>

\* the outcome of a try block with the provider calls it made
Threw(e, calls) == [threw |-> TRUE, thrown |-> e, value |-> JsUndefined, calls |-> calls]

Completed(v, calls) == [threw |-> FALSE, thrown |-> ThrownOther, value |-> v, calls |-> calls]

\* let msg = "Unknown error"; if (typeof e === "string") msg = e
\* else if (e instanceof Error) msg = e.message
catchReason(e) ==
    IF e.kind = "string" THEN e.message
    ELSE IF e.kind = "Error" THEN e.message
    ELSE "Unknown error"

\* await jwtVerify(jwt, cryptoKey, { algorithms: [alg] }); return valid
verifyWithKey(calls, a, verified) ==
    IF verified.ok THEN Completed(JsBool(TRUE), Append(calls, ProviderCall("jwtVerify", a)))
    ELSE Threw(verified.thrown, Append(calls, ProviderCall("jwtVerify", a)))

\* verifyJwtTry choosing the key by the nine identifiers instead of the prefix
verifyJwtTryListed(j, k, a, imported, verified) ==
    IF a \in {<<72, 83, 50, 53, 54>>, <<72, 83, 51, 56, 52>>, <<72, 83, 53, 49, 50>>}
    THEN verifyWithKey(<<>>, a, verified)
    ELSE IF a \in {<<82, 83, 50, 53, 54>>, <<82, 83, 51, 56, 52>>,
                   <<82, 83, 53, 49, 50>>, <<69, 83, 50, 53, 54>>,
                   <<69, 83, 51, 56, 52>>, <<69, 83, 53, 49, 50>>}
    THEN IF imported.ok
         THEN verifyWithKey(<<ProviderCall("importSPKI", a)>>, a, verified)
         ELSE Threw(imported.thrown, <<ProviderCall("importSPKI", a)>>)
    ELSE Threw(Err("Unsupported algorithm"), <<>>)

\* the try block of verifyJwt
verifyJwtTry(j, k, a, imported, verified) ==
    IF StartsWith(a, PrefixHS) THEN verifyWithKey(<<>>, a, verified)
    ELSE IF StartsWith(a, PrefixRS) \/ StartsWith(a, PrefixES)
    THEN IF imported.ok
         THEN verifyWithKey(<<ProviderCall("importSPKI", a)>>, a, verified)
         ELSE Threw(imported.thrown, <<ProviderCall("importSPKI", a)>>)
    ELSE Threw(Err("Unsupported algorithm"), <<>>)

\* what verifyJwt resolves to; rejected tells that its promise rejected
VerifyResult(valid, reason, calls, rejected) ==
    [valid |-> valid, reason |-> reason, calls |-> calls, rejected |-> rejected]

\* verifyJwtCatch catching instances of Error only
verifyJwtCatchErrors(r) ==
    IF ~r.threw THEN VerifyResult(TRUE, "Signature valid", r.calls, FALSE)
    ELSE IF r.thrown.kind = "Error"
    THEN VerifyResult(FALSE, r.thrown.message, r.calls, FALSE)
    ELSE VerifyResult(FALSE, "", r.calls, TRUE)

\* return { valid: true, ... } and the catch block of verifyJwt
verifyJwtCatch(r) ==
    IF r.threw THEN VerifyResult(FALSE, catchReason(r.thrown), r.calls, FALSE)
    ELSE VerifyResult(TRUE, "Signature valid", r.calls, FALSE)

verifyJwt(j, k, a, imported, verified) ==
    verifyJwtCatch(verifyJwtTry(j, k, a, imported, verified))

\* the token SignJWT.sign resolves to: the header and the claims it signs and
\* the key text it signs them with
SignedToken(h, p, s) == [header |-> h, payload |-> p, secret |-> s]

NoToken == [header |-> JsUndefined, payload |-> JsUndefined, secret |-> <<>>]

\* new SignJWT(parsedPayload).setProtectedHeader(parsedHeader).sign(key)
signWithKey(calls, h, p, s, signed) ==
    IF p.kind # "object"
    THEN Threw(Err("JWT Claims Set MUST be an object"), calls)
    ELSE IF signed.ok
    THEN Completed(SignedToken(h, p, s), Append(calls, ProviderCall("sign", <<>>)))
    ELSE Threw(signed.thrown, Append(calls, ProviderCall("sign", <<>>)))

\* the key by the prefix of alg, then the signing, h and p being the parsed
\* header and payload
generateParsed(h, p, s, a, imported, signed) ==
    IF StartsWith(a, PrefixHS) THEN signWithKey(<<>>, h, p, s, signed)
    ELSE IF StartsWith(a, PrefixRS) \/ StartsWith(a, PrefixES)
    THEN IF imported.ok
         THEN signWithKey(<<ProviderCall("importPKCS8", a)>>, h, p, s, signed)
         ELSE Threw(imported.thrown, <<ProviderCall("importPKCS8", a)>>)
    ELSE Threw(Err("Unsupported algorithm"), <<>>)

\* the try block of generateJwt from JSON.parse(payload) on, h being what
\* JsonParse makes of the header and p of the payload
generateFromJson(h, p, s, a, imported, signed) ==
    IF ~h.ok \/ ~p.ok THEN Threw(Err("Unexpected token in JSON"), <<>>)
    ELSE generateParsed(h.val, p.val, s, a, imported, signed)

\* the try block of generateJwt
generateJwtTry(header, payload, s, a, imported, signed) ==
    generateFromJson(JsonParse(header), JsonParse(payload), s, a, imported, signed)

\* what generateJwt resolves to: { jwt } or { error }
GenerateResult(hasJwt, token, hasError, msg, calls, rejected) ==
    [hasJwt |-> hasJwt, jwt |-> token, hasError |-> hasError, error |-> msg,
     calls |-> calls, rejected |-> rejected]

\* return { jwt } and the catch block of generateJwt
generateJwtCatch(r) ==
    IF r.threw
    THEN GenerateResult(FALSE, NoToken, TRUE, catchReason(r.thrown), r.calls, FALSE)
    ELSE GenerateResult(TRUE, r.value, FALSE, "", r.calls, FALSE)

generateJwt(header, payload, s, a, imported, signed) ==
    generateJwtCatch(generateJwtTry(header, payload, s, a, imported, signed))

(***************************************************************************)
(* The state.  App mounts one component at a time (TABS[tab].component);   *)
(* typed, jwt, header, payload, signature and error belong to the mounted  *)
(* component.                                                              *)
(***************************************************************************)
VARIABLES
    tab,              \* App: the index of the selected tab
    wallClock,        \* Math.floor(Date.now() / 1000)
    typed,            \* the text of the last change or paste event
    jwt,              \* useState(""): the trimmed token
    header,           \* useMemo: the decoded header, or null
    payload,          \* useMemo: the decoded payload, or null
    signature,        \* useMemo: the third segment
    error,            \* useMemo: the structural error message, or ""
    thrown,           \* an exception escaped a handler or the render
    alg,              \* TokenDecoder of README.md: useState("HS256")
    expirationStatus, \* TokenDecoder of README.md: status and message, or null
    expirationNow,    \* the now of the last checkTokenExpiration call
    currentTime,      \* LifetimeVisualizer: the clock sampled by the interval
    statusNow,        \* LifetimeVisualizer: the now of the last getStatus call
    status,           \* LifetimeVisualizer: getStatus(iat, nbf, exp)
    timeline,         \* LifetimeVisualizer: min, max and the marker percents
    timeRemaining,    \* LifetimeVisualizer: useMemo, the summary or null
    verification,     \* TokenDecoder of README.md: key, result, error, timer, calls
    lastCall,         \* verifyJwt, generateJwt: the last call, what it returned
    tokenEncoder,     \* TokenEncoder: its state and its generateJwt calls
    keyGenerator,     \* KeyGenerator: its state and its pending generations
    intervals,        \* LifetimeVisualizer: the intervals set and not cleared
    isDark,           \* App: useState(true)
    mobileMenuOpen,   \* App: useState(false)
    menuTabActivated, \* the last button of App activated is a tab button of the menu
    strengthChecker   \* SecretStrengthChecker: secret, entropy, length, strength

appVars == <<tab, wallClock, isDark, mobileMenuOpen, menuTabActivated>>

\* the values of (jwt, key, alg) a render of the decoder closes over
Closure(j, k, a) == [jwt |-> j, key |-> k, alg |-> a]

\* verificationResult: null when shown is FALSE; computedFor is the closure of
\* the handleVerify call that set it
VerificationResult(shown, valid, reason, c) ==
    [shown |-> shown, valid |-> valid, reason |-> reason, computedFor |-> c]

NoResult == VerificationResult(FALSE, FALSE, "", Closure(<<>>, <<>>, <<>>))

\* useState(""), useState(null), useState(""): no key, no result, no error;
\* timer holds the closure of the pending setTimeout, inFlight the closures
\* of the handleVerify calls that await verifyJwt
NoVerification ==
    [key |-> <<>>, result |-> NoResult, error |-> "", timer |-> <<>>, inFlight |-> {}]

\* no call of verifyJwt or generateJwt yet
NoCall ==
    [fn |-> "", header |-> <<>>, payload |-> <<>>, alg |-> <<>>,
     imported |-> Resolved, provided |-> Resolved,
     verified |-> VerifyResult(FALSE, "", <<>>, FALSE),
     generated |-> GenerateResult(FALSE, NoToken, FALSE, "", <<>>, FALSE),
     entropy |-> 0, length |-> 0, strength |-> ""]

\* JSON.stringify({ alg: "HS256", typ: "JWT" }, null, 2)
defaultHeader ==
    <<123, 10, 32, 32, 34, 97, 108, 103, 34, 58, 32, 34, 72, 83, 50, 53,
      54, 34, 44, 10, 32, 32, 34, 116, 121, 112, 34, 58, 32, 34, 74, 87,
      84, 34, 10, 125>>

\* JSON.stringify({ sub: "1234567890", name: "John Doe", iat: ... }, null, 2),
\* the module being loaded at second 0
defaultPayload ==
    <<123, 10, 32, 32, 34, 115, 117, 98, 34, 58, 32, 34, 49, 50, 51, 52,
      53, 54, 55, 56, 57, 48, 34, 44, 10, 32, 32, 34, 110, 97, 109, 101,
      34, 58, 32, 34, 74, 111, 104, 110, 32, 68, 111, 101, 34, 44, 10, 32,
      32, 34, 105, 97, 116, 34, 58, 32, 48, 10, 125>>

\* header texts: the default, and { which is no JSON
HeaderTexts == {defaultHeader, <<123>>}

\* payload texts: the default, 7 which is no object, and { which is no JSON
PayloadTexts == {defaultPayload, <<55>>, <<123>>}

\* the keys typed: none, and the text k
KeyInputs == {<<>>, <<107>>}

\* the inputs of a handleGenerate call
GenerateArgs(h, p, s, a) == [header |-> h, payload |-> p, secret |-> s, alg |-> a]

\* TokenEncoder after its mount: token is "" when shown is FALSE; tokenFor is
\* the inputs of the handleGenerate call that set it, inFlight the inputs of
\* the calls that await generateJwt
EncoderMounted ==
    [header |-> defaultHeader, payload |-> defaultPayload, secret |-> <<>>,
     alg |-> <<72, 83, 50, 53, 54>>, shown |-> FALSE, token |-> NoToken,
     tokenFor |-> GenerateArgs(<<>>, <<>>, <<>>, <<>>), error |-> "",
     inFlight |-> {}]

\* a symmetric key as text: its format and its number of characters
SymKey(format, chars) == [format |-> format, chars |-> chars]

\* a key pair as PEM texts, named by the size or the curve it was made for;
\* null when present is FALSE
KeyPair(present, param) == [present |-> present, param |-> param]

\* a generation that awaits the provider: "rsa" or "ec", and the size or curve
Generation(kind, param) == [kind |-> kind, param |-> param]

\* KeyGenerator after its mount; pending holds the generations that await
\* the provider, outcome tells how the last handler ended: "" (none yet),
\* "result", "exception" (it threw) or "rejected" (its promise rejected)
KeyGeneratorMounted ==
    [symFormat |-> "base64", symLen |-> 32, symKey |-> SymKey("", 0),
     rsaBits |-> 2048, rsaKeys |-> KeyPair(FALSE, 0),
     ecCurve |-> "P-256", ecKeys |-> KeyPair(FALSE, ""),
     pending |-> {}, outcome |-> ""]

\* Math.log2 of 1 to 16, in millionths
Log2Micro ==
    <<0, 1000000, 1584963, 2000000, 2321928, 2584963, 2807355, 3000000,
      3169925, 3321928, 3459432, 3584963, 3700440, 3807355, 3906891, 4000000>>

\* Math.round(n * Math.log2(unique)), halves rounded up
RoundedProduct(n, unique) == (n * Log2Micro[unique] + 500000) \div 1000000

\* estimateEntropy: Math.round(str.length * Math.log2(unique || 1)), 0 for
\* the empty text
estimateEntropy(str) ==
    IF str = <<>> THEN 0
    ELSE RoundedProduct(Len(str), Cardinality({str[i] : i \in 1..Len(str)}))

\* getStrength with the length tested against the entropy's thresholds
getStrengthSwapped(entropy, length) ==
    IF length < 30 \/ entropy < 8 THEN "Weak"
    ELSE IF length < 60 \/ entropy < 16 THEN "Medium"
    ELSE "Strong"

getStrength(entropy, length) ==
    IF length < 8 \/ entropy < 30 THEN "Weak"
    ELSE IF length < 16 \/ entropy < 60 THEN "Medium"
    ELSE "Strong"

\* the render of SecretStrengthChecker with the secret str and its entropy
checkerWith(str, entropy) ==
    [secret |-> str, entropy |-> entropy, length |-> Len(str),
     strength |-> getStrength(entropy, Len(str))]

checkerRender(str) == checkerWith(str, estimateEntropy(str))

\* SecretStrengthChecker after its mount: useState("")
CheckerMounted == checkerRender(<<>>)

\* the intervals that are set after the switch from the tab from to the tab
\* to, the cleanup of the effect never running
mountedIntervalsLeaked(n, from, to) == IF to = 4 THEN n + 1 ELSE n

\* the intervals that are set after the switch from the tab from to the tab
\* to: clearInterval when LifetimeVisualizer is unmounted, setInterval when
\* it is mounted
mountedIntervals(n, from, to) ==
    (IF from = 4 THEN n - 1 ELSE n) + (IF to = 4 THEN 1 ELSE 0)

\* App as loaded: the dark theme, the menu closed; LifetimeVisualizer, if
\* it is the mounted component, has set its interval
AppLoaded ==
    /\ isDark = TRUE
    /\ mobileMenuOpen = FALSE
    /\ menuTabActivated = FALSE
    /\ intervals = mountedIntervals(0, 0, tab)

\* the components that are not mounted hold the state of their mount
ToolsUnmounted ==
    /\ verification = NoVerification
    /\ lastCall = NoCall
    /\ tokenEncoder = EncoderMounted
    /\ keyGenerator = KeyGeneratorMounted
    /\ strengthChecker = CheckerMounted

inputVars == <<typed, jwt, header, payload, signature, error, thrown>>

expirationVars == <<alg, expirationStatus, expirationNow>>

visualizerVars ==
    <<currentTime, statusNow, status, timeline, timeRemaining, intervals>>

toolVars == <<lastCall, tokenEncoder, keyGenerator, strengthChecker>>

vars ==
    <<appVars, inputVars, expirationVars, visualizerVars, verification, toolVars>>

\* no token entered: the state of every component's input after its mount
NoInput ==
    /\ typed = <<>>
    /\ jwt = <<>>
    /\ header = JsNull
    /\ payload = JsNull
    /\ signature = <<>>
    /\ error = ""

\* the variables of a component that is not mounted hold these values
ExpirationUnmounted ==
    /\ alg = <<72, 83, 50, 53, 54>>
    /\ expirationStatus = NoExpirationStatus
    /\ expirationNow = 0

VisualizerUnmounted ==
    /\ currentTime = 0
    /\ statusNow = 0
    /\ status = "active"
    /\ timeline = timelineOf(JsUndefined, JsUndefined, JsUndefined, 0)
    /\ timeRemaining = NoSummary

(***************************************************************************)
(* TokenDecoder (src/components/TokenDecoder.tsx), on its own.             *)
(***************************************************************************)
\* the memo's value for each token the change events can produce
\* (useMemo(..., [jwt]) computes it once per token)
memoized == [j \in {Trim(raw) : raw \in DecoderInputs} |-> decodeMemo(j)]

\* the render after setJwt(j), m being the memo's value for j
render(j, m) ==
    /\ jwt' = j
    /\ header' = m.header
    /\ payload' = m.payload
    /\ signature' = m.signature
    /\ error' = m.error
    /\ thrown' = (thrown \/ m.threw)

\* setJwt(j), and the render it causes
setJwt(j) == render(j, memoized[j])

\* onChange={(e) => setJwt(e.target.value.trim())}
onChange(raw) ==
    /\ tab = 0
    /\ typed' = raw
    /\ setJwt(Trim(raw))
    /\ UNCHANGED <<appVars, expirationVars, visualizerVars, verification, toolVars>>

InitDecoder ==
    /\ tab = 0
    /\ wallClock = 0
    /\ NoInput
    /\ thrown = FALSE
    /\ ExpirationUnmounted
    /\ VisualizerUnmounted
    /\ ToolsUnmounted
    /\ AppLoaded

NextDecoder == \E raw \in DecoderInputs : onChange(raw)

SpecDecoder == InitDecoder /\ [][NextDecoder]_vars

(***************************************************************************)
(* TokenDecoder of README.md, the one with the expiration status, on the   *)
(* Decode tab of App.  No key is entered, so key, verificationResult and   *)
(* verificationError keep their initial values and are left out.           *)
(***************************************************************************)
HeaderPayload(h, p, err) == [header |-> h, payload |-> p, error |-> err]

\* the memo from the segment count on, parts being jwt.split(".")
headerPayloadParts(parts) ==
    IF Len(parts) # 3 THEN HeaderPayload(JsNull, JsNull, StructureError)
    ELSE HeaderPayload(parseJwtPart(parts[1]).val, parseJwtPart(parts[2]).val, "")

\* the useMemo over [jwt]: header, payload and error
headerPayloadMemo(j) ==
    IF j = <<>> THEN HeaderPayload(JsNull, JsNull, "")
    ELSE headerPayloadParts(Split(j))

headerPayloadMemoized == [j \in TimedTokens |-> headerPayloadMemo(j)]

\* if (header?.alg && ALGORITHMS.includes(header.alg)) setAlg(header.alg),
\* a being header?.alg and current the alg of the state
\* detectAlg with the condition of the effect left out: setAlg(header?.alg)
detectAlgAlways(a, current) ==
    IF a.kind = "string" THEN a.val ELSE current

\* detectAlg that forgets the selection when the header has no listed alg
detectAlgReset(a, current) ==
    IF Truthy(a) /\ a.kind = "string" /\ a.val \in ALGORITHMS THEN a.val
    ELSE <<>>

detectAlg(a, current) ==
    IF Truthy(a) /\ a.kind = "string" /\ a.val \in ALGORITHMS THEN a.val
    ELSE current

\* autoVerify without the cleanup of the effect: a timer that is pending
\* stays when no new one is set
autoVerifyKept(v, j, k, err, a) ==
    IF j # <<>> /\ k # <<>> /\ err = ""
    THEN [v EXCEPT !.key = k, !.timer = <<Closure(j, k, a)>>]
    ELSE [v EXCEPT !.key = k, !.result = NoResult, !.error = ""]

\* the auto-verify effect after a render with a new jwt, key or alg: the
\* pending timer is cleared; with a token, a key and no error a new timer is
\* set, whose handleVerify closes over this render; otherwise
\* setVerificationResult(null) and setVerificationError("")
autoVerify(v, j, k, err, a) ==
    IF j # <<>> /\ k # <<>> /\ err = ""
    THEN [v EXCEPT !.key = k, !.timer = <<Closure(j, k, a)>>]
    ELSE [v EXCEPT !.key = k, !.timer = <<>>, !.result = NoResult, !.error = ""]

\* the render and the effects after setJwt(j) and setKey(k), m being the
\* memo's value for j: the algorithm read from the header, the auto-verify
\* effect, the expiration status
Readme_render(j, m, k) ==
    /\ jwt' = j
    /\ header' = m.header
    /\ payload' = m.payload
    /\ error' = m.error
    /\ alg' = detectAlg(GetProp(m.header, KeyAlg), alg)
    /\ verification' = autoVerify(verification, j, k, m.error, alg')
    /\ expirationStatus' = IF j # <<>> THEN checkTokenExpiration(j, wallClock)
                           ELSE NoExpirationStatus
    /\ expirationNow' = IF j # <<>> THEN wallClock ELSE expirationNow

\* setJwt(j): a render when j differs from jwt, nothing otherwise
Readme_setJwt(j) ==
    IF j = jwt
    THEN UNCHANGED <<jwt, header, payload, error, expirationVars, verification>>
    ELSE Readme_render(j, headerPayloadMemoized[j], verification.key)

\* onChange={(e) => setJwt(e.target.value.trim())}
Readme_onChange(raw) ==
    /\ tab = 0
    /\ typed' = raw
    /\ Readme_setJwt(Trim(raw))
    /\ UNCHANGED <<appVars, signature, thrown, visualizerVars, toolVars>>

\* handlePaste: preventDefault, then setJwt(pastedText.trim())
Readme_handlePaste(raw) ==
    /\ tab = 0
    /\ typed' = raw
    /\ Readme_setJwt(Trim(raw))
    /\ UNCHANGED <<appVars, signature, thrown, visualizerVars, toolVars>>

\* clearAll: setJwt(""), setKey(""), the verification result and error reset
Readme_clearAll ==
    /\ tab = 0
    /\ typed' = <<>>
    /\ IF jwt = <<>>
       THEN /\ verification' = [verification EXCEPT !.key = <<>>, !.timer = <<>>,
                                                    !.result = NoResult, !.error = ""]
            /\ UNCHANGED <<jwt, header, payload, error, expirationVars>>
       ELSE Readme_render(<<>>, headerPayloadMemoized[<<>>], <<>>)
    /\ UNCHANGED <<appVars, signature, thrown, visualizerVars, toolVars>>

\* onChange={(e) => setKey(e.target.value)}: a render and the auto-verify
\* effect when k differs from key, nothing otherwise
Readme_setKey(k) ==
    /\ tab = 0
    /\ k # verification.key
    /\ verification' = autoVerify(verification, jwt, k, error, alg)
    /\ UNCHANGED <<appVars, inputVars, expirationVars, visualizerVars, toolVars>>

\* onChange={(e) => setAlg(e.target.value)}: a render and the auto-verify
\* effect when a differs from alg, nothing otherwise
Readme_setAlg(a) ==
    /\ tab = 0
    /\ a # alg
    /\ alg' = a
    /\ verification' = autoVerify(verification, jwt, verification.key, error, a)
    /\ UNCHANGED <<appVars, inputVars, expirationStatus, expirationNow,
                   visualizerVars, toolVars>>

\* the timer of the auto-verify effect fires, 300 ms after it was set:
\* handleVerify up to its await, with at most MaxInFlight calls in flight
Readme_handleVerify ==
    /\ tab = 0
    /\ verification.timer # <<>>
    /\ Cardinality(verification.inFlight \cup {verification.timer[1]}) <= MaxInFlight
    /\ verification' =
          [verification EXCEPT !.timer = <<>>, !.error = "", !.result = NoResult,
                               !.inFlight = @ \cup {verification.timer[1]}]
    /\ UNCHANGED <<appVars, inputVars, expirationVars, visualizerVars, toolVars>>

\* setVerificationResult(result), or the catch block of handleVerify
verificationSettled(v, c, r) ==
    IF r.rejected
    THEN [v EXCEPT !.inFlight = @ \ {c},
                   !.error = "An unexpected error occurred during verification"]
    ELSE [v EXCEPT !.inFlight = @ \ {c},
                   !.result = VerificationResult(TRUE, r.valid, r.reason, c)]

\* the verifyJwt call of a handleVerify resolves: the rest of handleVerify
Readme_verified(c, imported, verified) ==
    /\ tab = 0
    /\ c \in verification.inFlight
    /\ verification' =
          verificationSettled(verification, c,
                              verifyJwt(c.jwt, c.key, c.alg, imported, verified))
    /\ UNCHANGED <<appVars, inputVars, expirationVars, visualizerVars, toolVars>>

\* what is typed into the decoder with a key: tokens whose header names
\* ES256 and none, and one with one segment
VerifierInputs ==
    {Join3(EncodeSegment(JsObj(<< <<KeyAlg, JsStr(<<69, 83, 50, 53, 54>>)>> >>)),
           Segments[3], <<>>),
     Join3(EncodeSegment(JsObj(<< <<KeyAlg, JsStr(<<110, 111, 110, 101>>)>> >>)),
           Segments[3], <<>>),
     <<97>>}

\* what jose can do in the decoder: resolve, or throw an Error
VerifierOutcomes == {Resolved, Rejected(Err("signature verification failed"))}

(***************************************************************************)
(* TokenEncoder.                                                           *)
(***************************************************************************)
\* onChange={(v: string) => setHeader(v)}
setHeader(h) ==
    /\ tab = 1
    /\ tokenEncoder' = [tokenEncoder EXCEPT !.header = h]
    /\ UNCHANGED <<appVars, inputVars, expirationVars, visualizerVars,
                   verification, lastCall, keyGenerator,
                   strengthChecker>>

\* onChange={(v: string) => setPayload(v)}
setPayload(p) ==
    /\ tab = 1
    /\ tokenEncoder' = [tokenEncoder EXCEPT !.payload = p]
    /\ UNCHANGED <<appVars, inputVars, expirationVars, visualizerVars,
                   verification, lastCall, keyGenerator,
                   strengthChecker>>

\* onChange={(e) => setSecret(e.target.value)}
setSecret(s) ==
    /\ tab = 1
    /\ tokenEncoder' = [tokenEncoder EXCEPT !.secret = s]
    /\ UNCHANGED <<appVars, inputVars, expirationVars, visualizerVars,
                   verification, lastCall, keyGenerator,
                   strengthChecker>>

\* onChange={(e) => setAlg(e.target.value)} of TokenEncoder
Encoder_setAlg(a) ==
    /\ tab = 1
    /\ tokenEncoder' = [tokenEncoder EXCEPT !.alg = a]
    /\ UNCHANGED <<appVars, inputVars, expirationVars, visualizerVars,
                   verification, lastCall, keyGenerator,
                   strengthChecker>>

\* the inputs of the render handleGenerate closes over
encoderArgs(e) == GenerateArgs(e.header, e.payload, e.secret, e.alg)

\* handleGenerate up to its await: setError(""), setToken(""), with at most
\* MaxGenerating calls in flight
handleGenerate ==
    /\ tab = 1
    /\ Cardinality(tokenEncoder.inFlight \cup {encoderArgs(tokenEncoder)})
          <= MaxGenerating
    /\ tokenEncoder' =
          [tokenEncoder EXCEPT !.error = "", !.shown = FALSE, !.token = NoToken,
                               !.inFlight = @ \cup {encoderArgs(tokenEncoder)}]
    /\ UNCHANGED <<appVars, inputVars, expirationVars, visualizerVars,
                   verification, lastCall, keyGenerator,
                   strengthChecker>>

\* if (error) setError(error) else setToken(jwt || ""), r being what
\* generateJwt resolved to for the inputs c
generateSettled(e, c, r) ==
    IF r.hasError /\ r.error # ""
    THEN [e EXCEPT !.inFlight = @ \ {c}, !.error = r.error]
    ELSE [e EXCEPT !.inFlight = @ \ {c}, !.shown = r.hasJwt, !.token = r.jwt,
                   !.tokenFor = IF r.hasJwt THEN c ELSE @]

\* the generateJwt call of a handleGenerate resolves: the rest of
\* handleGenerate
Encoder_generated(c, imported, signed) ==
    /\ tab = 1
    /\ c \in tokenEncoder.inFlight
    /\ tokenEncoder' =
          generateSettled(tokenEncoder, c,
                          generateJwt(c.header, c.payload, c.secret, c.alg,
                                      imported, signed))
    /\ UNCHANGED <<appVars, inputVars, expirationVars, visualizerVars,
                   verification, lastCall, keyGenerator,
                   strengthChecker>>

\* what jose can do in the encoder: resolve, or throw an Error
EncoderOutcomes == {Resolved, Rejected(Err("signature verification failed"))}

InitEncoder ==
    /\ tab = 1
    /\ wallClock = 0
    /\ NoInput
    /\ thrown = FALSE
    /\ ExpirationUnmounted
    /\ VisualizerUnmounted
    /\ ToolsUnmounted
    /\ AppLoaded

NextEncoder ==
    \/ \E h \in HeaderTexts : setHeader(h)
    \/ \E p \in {defaultPayload, <<123>>} : setPayload(p)
    \/ \E s \in KeyInputs : setSecret(s)
    \/ \E a \in {<<72, 83, 50, 53, 54>>, <<82, 83, 50, 53, 54>>} : Encoder_setAlg(a)
    \/ handleGenerate
    \/ \E c \in tokenEncoder.inFlight, imported \in EncoderOutcomes,
            signed \in EncoderOutcomes : Encoder_generated(c, imported, signed)

SpecEncoder == InitEncoder /\ [][NextEncoder]_vars

(***************************************************************************)
(* KeyGenerator.                                                           *)
(***************************************************************************)
\* new Uint8Array(len) throws a RangeError for a negative length, and
\* crypto.getRandomValues a QuotaExceededError for more than 65536 bytes
randomBytes(len) ==
    IF len < 0 THEN [threw |-> TRUE, name |-> "RangeError", bytes |-> 0]
    ELSE IF len > 65536 THEN [threw |-> TRUE, name |-> "QuotaExceededError", bytes |-> 0]
    ELSE [threw |-> FALSE, name |-> "", bytes |-> len]

\* toHex: two characters a byte
toHex(bytes) == SymKey(IF bytes = 0 THEN "" ELSE "hex", 2 * bytes)

\* toBase64: btoa, four characters for every three bytes, padded
toBase64(bytes) == SymKey(IF bytes = 0 THEN "" ELSE "base64", 4 * ((bytes + 2) \div 3))

\* the rest of handleGenSym, r being what randomBytes(symLen) did
genSymWith(g, r) ==
    IF r.threw THEN [g EXCEPT !.outcome = "exception"]
    ELSE [g EXCEPT !.outcome = "result",
                   !.symKey = IF g.symFormat = "hex" THEN toHex(r.bytes)
                              ELSE toBase64(r.bytes)]

\* handleGenSym: nothing catches what randomBytes throws
handleGenSym ==
    /\ tab = 3
    /\ keyGenerator' = genSymWith(keyGenerator, randomBytes(keyGenerator.symLen))
    /\ thrown' = (thrown \/ keyGenerator'.outcome = "exception")
    /\ UNCHANGED <<appVars, typed, jwt, header, payload, signature, error,
                   expirationVars, visualizerVars, verification, lastCall,
                   tokenEncoder, strengthChecker>>

\* onChange={(e) => setSymLen(Number(e.target.value))}
setSymLen(n) ==
    /\ tab = 3
    /\ keyGenerator' = [keyGenerator EXCEPT !.symLen = n]
    /\ UNCHANGED <<appVars, inputVars, expirationVars, visualizerVars,
                   verification, lastCall, tokenEncoder,
                   strengthChecker>>

\* onChange={(e) => setSymFormat(e.target.value)}
setSymFormat(f) ==
    /\ tab = 3
    /\ keyGenerator' = [keyGenerator EXCEPT !.symFormat = f]
    /\ UNCHANGED <<appVars, inputVars, expirationVars, visualizerVars,
                   verification, lastCall, tokenEncoder,
                   strengthChecker>>

\* onChange={(e) => setRsaBits(Number(e.target.value))}
setRsaBits(bits) ==
    /\ tab = 3
    /\ keyGenerator' = [keyGenerator EXCEPT !.rsaBits = bits]
    /\ UNCHANGED <<appVars, inputVars, expirationVars, visualizerVars,
                   verification, lastCall, tokenEncoder,
                   strengthChecker>>

\* onChange={(e) => setEcCurve(e.target.value)}
setEcCurve(curve) ==
    /\ tab = 3
    /\ keyGenerator' = [keyGenerator EXCEPT !.ecCurve = curve]
    /\ UNCHANGED <<appVars, inputVars, expirationVars, visualizerVars,
                   verification, lastCall, tokenEncoder,
                   strengthChecker>>

\* handleGenRsa up to its first await, with at most MaxInFlight generations
\* pending
handleGenRsa ==
    /\ tab = 3
    /\ Cardinality(keyGenerator.pending
                   \cup {Generation("rsa", keyGenerator.rsaBits)}) <= MaxInFlight
    /\ keyGenerator' =
          [keyGenerator EXCEPT !.pending = @ \cup {Generation("rsa", keyGenerator.rsaBits)}]
    /\ UNCHANGED <<appVars, inputVars, expirationVars, visualizerVars,
                   verification, lastCall, tokenEncoder,
                   strengthChecker>>

\* handleGenEc up to its first await
handleGenEc ==
    /\ tab = 3
    /\ Cardinality(keyGenerator.pending
                   \cup {Generation("ec", keyGenerator.ecCurve)}) <= MaxInFlight
    /\ keyGenerator' =
          [keyGenerator EXCEPT !.pending = @ \cup {Generation("ec", keyGenerator.ecCurve)}]
    /\ UNCHANGED <<appVars, inputVars, expirationVars, visualizerVars,
                   verification, lastCall, tokenEncoder,
                   strengthChecker>>

\* what crypto.subtle.generateKey and exportKey can do: resolve, or reject
SubtleOutcomes == {Resolved, Rejected(Err("The operation failed"))}

\* setRsaKeys or setEcKeys with the pair made for the generation c
keysSet(g, c) ==
    IF c.kind = "rsa"
    THEN [g EXCEPT !.pending = @ \ {c}, !.outcome = "result",
                   !.rsaKeys = KeyPair(TRUE, c.param)]
    ELSE [g EXCEPT !.pending = @ \ {c}, !.outcome = "result",
                   !.ecKeys = KeyPair(TRUE, c.param)]

\* the rest of handleGenRsa or handleGenEc: the three awaits, none of them
\* in a try block, then setRsaKeys or setEcKeys
keysGenerated(g, c, generated, exportedPublic, exportedPrivate) ==
    IF generated.ok /\ exportedPublic.ok /\ exportedPrivate.ok THEN keysSet(g, c)
    ELSE [g EXCEPT !.pending = @ \ {c}, !.outcome = "rejected"]

\* the provider settles the generation c
generationSettled(c, generated, exportedPublic, exportedPrivate) ==
    /\ tab = 3
    /\ c \in keyGenerator.pending
    /\ keyGenerator' =
          keysGenerated(keyGenerator, c, generated, exportedPublic, exportedPrivate)
    /\ thrown' = (thrown \/ keyGenerator'.outcome = "rejected")
    /\ UNCHANGED <<appVars, typed, jwt, header, payload, signature, error,
                   expirationVars, visualizerVars, verification, lastCall,
                   tokenEncoder, strengthChecker>>

\* the lengths typed: a negative one, none, one below the min of the input,
\* the default, and one byte more than getRandomValues fills
SymLengths == {-1, 0, 4, 32, 65537}

InitKeys ==
    /\ tab = 3
    /\ wallClock = 0
    /\ NoInput
    /\ thrown = FALSE
    /\ ExpirationUnmounted
    /\ VisualizerUnmounted
    /\ ToolsUnmounted
    /\ AppLoaded

NextKeys ==
    \/ \E n \in SymLengths : setSymLen(n)
    \/ \E f \in {"base64", "hex"} : setSymFormat(f)
    \/ \E bits \in {2048, 4096} : setRsaBits(bits)
    \/ \E curve \in {"P-256", "P-384"} : setEcCurve(curve)
    \/ handleGenSym
    \/ handleGenRsa
    \/ handleGenEc
    \/ \E c \in keyGenerator.pending, generated \in SubtleOutcomes,
            exportedPublic \in SubtleOutcomes, exportedPrivate \in SubtleOutcomes :
          generationSettled(c, generated, exportedPublic, exportedPrivate)

SpecKeys == InitKeys /\ [][NextKeys]_vars

(***************************************************************************)
(* verifyJwt and generateJwt called on their own.                          *)
(***************************************************************************)
\* the identifiers the two functions are written for
SupportedIdentifiers ==
    {<<72, 83, 50, 53, 54>>,
     <<72, 83, 51, 56, 52>>,
     <<72, 83, 53, 49, 50>>,
     <<82, 83, 50, 53, 54>>,
     <<82, 83, 51, 56, 52>>,
     <<82, 83, 53, 49, 50>>,
     <<69, 83, 50, 53, 54>>,
     <<69, 83, 51, 56, 52>>,
     <<69, 83, 53, 49, 50>>}

\* other identifiers: "", none, PS256, EdDSA, hs256, HS999, RS1, ES
OtherIdentifiers ==
    {<<>>,
     <<110, 111, 110, 101>>,
     <<80, 83, 50, 53, 54>>,
     <<69, 100, 68, 83, 65>>,
     <<104, 115, 50, 53, 54>>,
     <<72, 83, 57, 57, 57>>,
     <<82, 83, 49>>,
     <<69, 83>>}

AlgIdentifiers == SupportedIdentifiers \cup OtherIdentifiers

\* a call of verifyJwt: the token and the key are what the provider reads,
\* and what it does with them is imported and verified
verifyJwtCall(j, k, a, imported, verified) ==
    /\ lastCall = NoCall
    /\ lastCall' = [NoCall EXCEPT !.fn = "verifyJwt", !.alg = a,
                                  !.imported = imported, !.provided = verified,
                                  !.verified = verifyJwt(j, k, a, imported, verified)]
    /\ UNCHANGED <<appVars, inputVars, expirationVars, visualizerVars,
                   verification, tokenEncoder, keyGenerator,
                   strengthChecker>>

\* a call of generateJwt
generateJwtCall(h, p, s, a, imported, signed) ==
    /\ lastCall = NoCall
    /\ lastCall' = [NoCall EXCEPT !.fn = "generateJwt", !.header = h, !.payload = p,
                                  !.alg = a, !.imported = imported, !.provided = signed,
                                  !.generated = generateJwt(h, p, s, a, imported, signed)]
    /\ UNCHANGED <<appVars, inputVars, expirationVars, visualizerVars,
                   verification, tokenEncoder, keyGenerator,
                   strengthChecker>>

InitCalls ==
    /\ tab = 0
    /\ wallClock = 0
    /\ NoInput
    /\ thrown = FALSE
    /\ ExpirationUnmounted
    /\ VisualizerUnmounted
    /\ ToolsUnmounted
    /\ AppLoaded

NextCalls ==
    \/ \E a \in AlgIdentifiers, imported \in ProviderOutcomes,
            verified \in ProviderOutcomes :
          verifyJwtCall(<<106, 119, 116>>, <<107>>, a, imported, verified)
    \/ \E h \in HeaderTexts, p \in PayloadTexts, a \in AlgIdentifiers,
            imported \in ProviderOutcomes, signed \in ProviderOutcomes :
          generateJwtCall(h, p, <<107>>, a, imported, signed)

SpecCalls == InitCalls /\ [][NextCalls]_vars

(***************************************************************************)
(* SecretStrengthChecker.                                                  *)
(***************************************************************************)
\* a secret of n characters, unique of them distinct
SecretOf(n, unique) == [i \in 1..n |-> 97 + ((i - 1) % unique)]

\* the secrets typed: every length up to MaxSecret with every number of
\* distinct characters up to the length and to the end of Log2Micro
SecretInputs ==
    {<<>>} \cup {SecretOf(n, unique) : n \in 1..MaxSecret, unique \in 1..Len(Log2Micro)}

\* onChange={(e) => setSecret(e.target.value)} of SecretStrengthChecker
\* and the render after it
Checker_setSecret(str) ==
    /\ tab = 2
    /\ strengthChecker' = checkerRender(str)
    /\ UNCHANGED <<appVars, inputVars, expirationVars, visualizerVars,
                   verification, lastCall, tokenEncoder, keyGenerator>>

\* a call of getStrength
getStrengthCall(entropy, length) ==
    /\ lastCall' = [NoCall EXCEPT !.fn = "getStrength", !.entropy = entropy,
                                  !.length = length,
                                  !.strength = getStrength(entropy, length)]
    /\ UNCHANGED <<appVars, inputVars, expirationVars, visualizerVars,
                   verification, tokenEncoder, keyGenerator,
                   strengthChecker>>

\* the entropies and the lengths getStrength is called with on its own: the
\* two thresholds of each, their neighbours and the ends
CallEntropies == {0, 29, 30, 31, 59, 60, MaxEntropy}

CallLengths == {0, 7, 8, 9, 15, 16, MaxSecret}

InitStrength ==
    /\ tab = 2
    /\ wallClock = 0
    /\ NoInput
    /\ thrown = FALSE
    /\ ExpirationUnmounted
    /\ VisualizerUnmounted
    /\ ToolsUnmounted
    /\ AppLoaded

NextStrength ==
    \/ \E str \in SecretInputs : Checker_setSecret(str)
    \/ \E entropy \in CallEntropies, length \in CallLengths :
          getStrengthCall(entropy, length)

SpecStrength == InitStrength /\ [][NextStrength]_vars

\* the decoder with its key input, the clock standing still
InitVerifier ==
    /\ tab = 0
    /\ wallClock = 0
    /\ NoInput
    /\ thrown = FALSE
    /\ ExpirationUnmounted
    /\ VisualizerUnmounted
    /\ ToolsUnmounted
    /\ AppLoaded

NextVerifier ==
    \/ \E raw \in VerifierInputs : Readme_onChange(raw)
    \/ \E k \in KeyInputs : Readme_setKey(k)
    \/ \E a \in ALGORITHMS : Readme_setAlg(a)
    \/ Readme_clearAll
    \/ Readme_handleVerify
    \/ \E c \in verification.inFlight, imported \in VerifierOutcomes,
            verified \in VerifierOutcomes : Readme_verified(c, imported, verified)

SpecVerifier == InitVerifier /\ [][NextVerifier]_vars

\* a timer that is set fires, and a verifyJwt call that was made resolves
SpecVerifierLive ==
    /\ SpecVerifier
    /\ WF_vars(Readme_handleVerify)
    /\ WF_vars(\E c \in verification.inFlight, imported \in VerifierOutcomes,
                  verified \in VerifierOutcomes :
                    Readme_verified(c, imported, verified))

(***************************************************************************)
(* LifetimeVisualizer, on the Visualize tab of App.                        *)
(***************************************************************************)
PayloadError(p, err) == [payload |-> p, error |-> err]

\* the memo from the segment count on, parts being jwt.split(".")
payloadParts(parts) ==
    IF Len(parts) # 3 THEN PayloadError(JsNull, StructureError)
    ELSE PayloadError(parseJwtPart(parts[2]).val, "")

\* the useMemo over [jwt]: payload and error
payloadMemo(j) ==
    IF j = <<>> THEN PayloadError(JsNull, "") ELSE payloadParts(Split(j))

payloadMemoized == [j \in TimedTokens |-> payloadMemo(j)]

\* the body of the render, given payload?.iat, payload?.nbf and payload?.exp
Lv_body(p, iat, nbf, exp, now, wall) ==
    /\ payload' = p
    /\ currentTime' = now
    /\ statusNow' = wall
    /\ status' = getStatus(iat, nbf, exp, wall)
    /\ timeline' = timelineOf(iat, nbf, exp, now)
    /\ timeRemaining' = timeRemainingOf(p, status', now, exp, nbf, iat)
    /\ intervals' = intervals

\* the render from the memo's value m on
Lv_memo(m, now, wall) ==
    /\ error' = m.error
    /\ Lv_body(m.payload, GetProp(m.payload, KeyIat), GetProp(m.payload, KeyNbf),
               GetProp(m.payload, KeyExp), now, wall)

\* one render of the component with the token j and the sampled clock now,
\* while Date.now() is at the second wall
Lv_render(j, now, wall) ==
    /\ jwt' = j
    /\ Lv_memo(payloadMemoized[j], now, wall)

\* setJwt(j): a render when j differs from jwt, nothing otherwise
Lv_setJwt(j) ==
    IF j = jwt THEN UNCHANGED <<jwt, payload, error, visualizerVars>>
    ELSE Lv_render(j, currentTime, wallClock)

\* onChange={(e) => setJwt(e.target.value.trim())}
Lv_onChange(raw) ==
    /\ tab = 4
    /\ typed' = raw
    /\ Lv_setJwt(Trim(raw))
    /\ UNCHANGED <<appVars, header, signature, thrown, expirationVars, verification,
                   toolVars>>

\* handlePaste: setJwt(pastedText.trim()); the change event of the pasted
\* text follows as an onChange
Lv_handlePaste(raw) ==
    /\ tab = 4
    /\ typed' = raw
    /\ Lv_setJwt(Trim(raw))
    /\ UNCHANGED <<appVars, header, signature, thrown, expirationVars, verification,
                   toolVars>>

\* clearAll: setJwt("")
Lv_clearAll ==
    /\ tab = 4
    /\ typed' = <<>>
    /\ Lv_setJwt(<<>>)
    /\ UNCHANGED <<appVars, header, signature, thrown, expirationVars, verification,
                   toolVars>>

\* the callback of an interval that is set:
\* setCurrentTime(Math.floor(Date.now() / 1000)), a render when the
\* component is mounted and the second has changed
Lv_tick ==
    /\ intervals > 0
    /\ IF tab # 4 \/ wallClock = currentTime
       THEN UNCHANGED <<jwt, payload, error, visualizerVars>>
       ELSE Lv_render(jwt, wallClock, wallClock)
    /\ UNCHANGED <<appVars, typed, header, signature, thrown, expirationVars,
                   verification, toolVars>>

\* LifetimeVisualizer on its own, mounted at the second 0
InitVisualizer ==
    /\ tab = 4
    /\ wallClock = 0
    /\ NoInput
    /\ thrown = FALSE
    /\ ExpirationUnmounted
    /\ VisualizerUnmounted
    /\ ToolsUnmounted
    /\ AppLoaded

(***************************************************************************)
(* App.                                                                    *)
(***************************************************************************)
\* the effect on [tab] never running: the menu stays as it is
menuAfterTabKept(open, from, to) == open

\* useEffect(() => { setMobileMenuOpen(false) }, [tab]): the menu after
\* setTab(to) while the tab is from
menuAfterTab(open, from, to) == IF to # from THEN FALSE ELSE open

\* the render after setTab(i) with another tab: the component of the old tab
\* is unmounted (its interval cleared), the component of tab i mounted, and
\* the effect on [tab] runs
switchTab(i) ==
    /\ tab' = i
    /\ typed' = <<>>
    /\ jwt' = <<>>
    /\ header' = JsNull
    /\ payload' = JsNull
    /\ signature' = <<>>
    /\ error' = ""
    /\ alg' = <<72, 83, 50, 53, 54>>
    /\ expirationStatus' = NoExpirationStatus
    /\ expirationNow' = 0
    /\ currentTime' = IF i = 4 THEN wallClock ELSE 0
    /\ statusNow' = currentTime'
    /\ status' = getStatus(JsUndefined, JsUndefined, JsUndefined, statusNow')
    /\ timeline' = timelineOf(JsUndefined, JsUndefined, JsUndefined, currentTime')
    /\ timeRemaining' = NoSummary
    /\ verification' = NoVerification
    /\ tokenEncoder' = EncoderMounted
    /\ keyGenerator' = KeyGeneratorMounted
    /\ intervals' = mountedIntervals(intervals, tab, i)
    /\ strengthChecker' = CheckerMounted
    /\ mobileMenuOpen' = menuAfterTab(mobileMenuOpen, tab, i)
    /\ UNCHANGED <<wallClock, thrown, lastCall, isDark>>

\* onClick={() => setTab(i)} of a tab button of the navigation bar, for
\* another tab than the selected one
setTab(i) ==
    /\ i # tab
    /\ switchTab(i)
    /\ menuTabActivated' = FALSE

\* onClick={() => setTab(i)} of a tab button of the mobile menu, which is
\* open: nothing is rendered when i is the selected tab
menuSetTab(i) ==
    /\ mobileMenuOpen
    /\ menuTabActivated' = TRUE
    /\ IF i = tab
       THEN UNCHANGED <<tab, wallClock, isDark, mobileMenuOpen, inputVars,
                        expirationVars, visualizerVars, verification, toolVars>>
       ELSE switchTab(i)

\* toggleTheme: setIsDark(!isDark)
toggleTheme ==
    /\ isDark' = ~isDark
    /\ menuTabActivated' = FALSE
    /\ UNCHANGED <<tab, wallClock, mobileMenuOpen, inputVars, expirationVars,
                   visualizerVars, verification, toolVars>>

\* onClick={() => setMobileMenuOpen(!mobileMenuOpen)} of the menu button
toggleMobileMenu ==
    /\ mobileMenuOpen' = ~mobileMenuOpen
    /\ menuTabActivated' = FALSE
    /\ UNCHANGED <<tab, wallClock, isDark, inputVars, expirationVars,
                   visualizerVars, verification, toolVars>>

\* onClick={() => setMobileMenuOpen(false)} of the backdrop of the open menu
closeMobileMenu ==
    /\ mobileMenuOpen
    /\ mobileMenuOpen' = FALSE
    /\ menuTabActivated' = FALSE
    /\ UNCHANGED <<tab, wallClock, isDark, inputVars, expirationVars,
                   visualizerVars, verification, toolVars>>

\* a second passes
ClockAdvance ==
    /\ wallClock < MaxClock
    /\ wallClock' = wallClock + 1
    /\ UNCHANGED <<tab, isDark, mobileMenuOpen, menuTabActivated, inputVars,
                   expirationVars, visualizerVars, verification, toolVars>>

\* the page as loaded, at the epoch or at the time of scenario D
Init ==
    /\ tab = 0
    /\ wallClock \in {0, 2500}
    /\ NoInput
    /\ thrown = FALSE
    /\ ExpirationUnmounted
    /\ VisualizerUnmounted
    /\ ToolsUnmounted
    /\ AppLoaded

Next ==
    \/ \E i \in 0..4 : setTab(i)
    \/ ClockAdvance
    \/ \E raw \in ExpirationInputs : Readme_onChange(raw)
    \/ \E raw \in PastedInputs : Readme_handlePaste(raw)
    \/ Readme_clearAll
    \/ \E raw \in TimedInputs : Lv_onChange(raw)
    \/ \E raw \in PastedInputs : Lv_handlePaste(raw)
    \/ Lv_clearAll
    \/ Lv_tick

Spec == Init /\ [][Next]_vars

NextVisualizer ==
    \/ ClockAdvance
    \/ \E raw \in DurationInputs : Lv_onChange(raw)
    \/ Lv_clearAll
    \/ Lv_tick

SpecVisualizer == InitVisualizer /\ [][NextVisualizer]_vars

\* App with its navigation, the theme and the menu, and the lifetime view
\* with its interval
NextApp ==
    \/ \E i \in 0..4 : setTab(i)
    \/ \E i \in 0..4 : menuSetTab(i)
    \/ toggleTheme
    \/ toggleMobileMenu
    \/ closeMobileMenu
    \/ ClockAdvance
    \/ \E raw \in PastedInputs : Lv_onChange(raw)
    \/ Lv_tick

SpecApp == Init /\ [][NextApp]_vars

(***************************************************************************)
(* Properties of the decoder.  The raw input is typed; its segments are    *)
(* read off the positions of its dots.                                     *)
(***************************************************************************)
DotCount(s) == Cardinality(DotPositions(s))

IsBlank(s) == \A i \in 1..Len(s) : s[i] \in WhiteSpace

\* the raw input without its leading and trailing white space
Core(s) ==
    IF IsBlank(s) THEN <<>>
    ELSE LET first == CHOOSE i \in 1..Len(s) :
                          s[i] \notin WhiteSpace /\ IsBlank(SubSeq(s, 1, i - 1))
             last == CHOOSE i \in 1..Len(s) :
                          s[i] \notin WhiteSpace /\ IsBlank(SubSeq(s, i + 1, Len(s)))
         IN SubSeq(s, first, last)

FirstDot(s) == CHOOSE i \in DotPositions(s) : \A j \in DotPositions(s) : i <= j

LastDot(s) == CHOOSE i \in DotPositions(s) : \A j \in DotPositions(s) : j <= i

\* the three segments of an input with two dots
Segment1(s) == SubSeq(s, 1, FirstDot(s) - 1)

Segment2(s) == SubSeq(s, FirstDot(s) + 1, LastDot(s) - 1)

Segment3(s) == SubSeq(s, LastDot(s) + 1, Len(s))

StructureFailure ==
    /\ error = "JWT must have 3 parts (header.payload.signature)"
    /\ header = JsNull
    /\ payload = JsNull
    /\ signature = <<>>

\* C4 as stated: every change event whose text has a dot count other than 2
\* leaves the structural error with a null header, a null payload and an
\* empty signature, and every one with exactly 2 dots leaves no error.
C4_AnyInput ==
    [][/\ DotCount(typed') # 2 => StructureFailure'
       /\ DotCount(typed') = 2 => error' = ""]_vars

\* C4 amended: the same, for inputs that are not empty after trimming.
C4_StructuralGate ==
    ~IsBlank(typed) =>
        /\ DotCount(typed) # 2 => StructureFailure
        /\ DotCount(typed) = 2 => error = ""

\* an input with more than two dots was refused
C4_Witness == DotCount(typed) > 2 /\ ~IsBlank(typed) /\ StructureFailure

\* C5: an input that is empty after trimming, white space alone included,
\* gives the neutral state: null header, null payload, empty signature, no
\* error, and nothing raised.
C5_BlankIsNeutral ==
    IsBlank(typed) =>
        /\ header = JsNull
        /\ payload = JsNull
        /\ signature = <<>>
        /\ error = ""
        /\ ~thrown

\* white space alone was typed
C5_Witness == typed # <<>> /\ IsBlank(typed) /\ error = "" /\ jwt = <<>>

\* C6: for an input s1.s2.s3 the header is parseJwtPart(s1), the payload is
\* parseJwtPart(s2), the signature is s3 as typed and the error is empty,
\* whichever of the two segments decode.
C6_ThreeSegments ==
    DotCount(typed) = 2 =>
        /\ header = parseJwtPart(Segment1(Core(typed))).val
        /\ payload = parseJwtPart(Segment2(Core(typed))).val
        /\ signature = Segment3(Core(typed))
        /\ error = ""
        /\ ~thrown

\* the header failed to decode, the payload decoded, the signature is kept
C6_Witness ==
    /\ DotCount(typed) = 2
    /\ header = JsNull
    /\ payload = JsonObjects[3]
    /\ signature = <<106, 119, 116>>
    /\ error = ""

\* the steps of parseJwtPart at which the segment s fails
Base64Fails(s) == ~B64Decode(s).ok

Utf8Fails(s) == B64Decode(s).ok /\ Utf8Decode(B64Decode(s).bytes).malformed

JsonFails(s) ==
    B64Decode(s).ok /\ ~JsonParse(Utf8Decode(B64Decode(s).bytes).text).ok

\* C7: parseJwtPart never raises, and a segment that fails at base64url
\* decoding, at UTF-8 decoding or at JSON parsing decodes to null.
C7_FailureIsNull ==
    DotCount(typed) = 2 =>
        /\ ~thrown
        /\ \/ Base64Fails(Segment1(Core(typed)))
           \/ Utf8Fails(Segment1(Core(typed)))
           \/ JsonFails(Segment1(Core(typed)))
           => header = JsNull
        /\ \/ Base64Fails(Segment2(Core(typed)))
           \/ Utf8Fails(Segment2(Core(typed)))
           \/ JsonFails(Segment2(Core(typed)))
           => payload = JsNull

\* C8: the token base64url(JSON(H)).base64url(JSON(P)).sig decodes to the
\* header H, the payload P and the signature sig, with no error.
C8_RoundTrip ==
    \A h \in 1..Len(JsonObjects), p \in 1..Len(JsonObjects), sig \in Signatures :
        typed = Join3(Segments[h], Segments[p], sig) =>
            /\ header = JsonObjects[h]
            /\ payload = JsonObjects[p]
            /\ signature = sig
            /\ error = ""

\* the object with the escapes came back as the header, the default payload
\* as the payload
C8_Witness ==
    /\ typed = Join3(EncodeSegment(JsonObjects[4]), EncodeSegment(JsonObjects[3]),
                     <<83, 102, 45, 95, 99>>)
    /\ header = JsonObjects[4]
    /\ payload = JsonObjects[3]
    /\ signature = <<83, 102, 45, 95, 99>>

(***************************************************************************)
(* Properties of the status, the summary and the timeline.                 *)
(***************************************************************************)
\* payload?.iat, payload?.nbf and payload?.exp of the rendered payload
iatClaim == GetProp(payload, KeyIat)

nbfClaim == GetProp(payload, KeyNbf)

expClaim == GetProp(payload, KeyExp)

ExpiredRule == Truthy(expClaim) /\ statusNow > expClaim.val

NbfRule == Truthy(nbfClaim) /\ statusNow < nbfClaim.val

IatRule == Truthy(iatClaim) /\ statusNow < iatClaim.val

\* C1: the status shown by LifetimeVisualizer is the first match of: expired
\* when exp is truthy and now > exp, not yet valid when nbf is truthy and
\* now < nbf, not yet valid when iat is truthy and now < iat, active
\* otherwise; an exp in the past wins over an nbf or iat in the future
C1_FirstMatch ==
    tab = 4 =>
        /\ ExpiredRule => status = "expired"
        /\ ~ExpiredRule /\ (NbfRule \/ IatRule) => status = "not yet valid"
        /\ ~ExpiredRule /\ ~NbfRule /\ ~IatRule => status = "active"

C1_Witness ==
    /\ tab = 4
    /\ ExpiredRule
    /\ NbfRule
    /\ IatRule
    /\ status = "expired"

\* C2, as claimed: at now = exp no evaluator says expired, and at now = nbf
\* no evaluator says not yet valid
C2_NeverAtBoundary ==
    /\ tab = 4 /\ Truthy(expClaim) /\ statusNow = expClaim.val
        => status # "expired"
    /\ tab = 4 /\ Truthy(nbfClaim) /\ statusNow = nbfClaim.val
        => status # "not yet valid"
    /\ tab = 0 /\ Truthy(expClaim) /\ expirationNow = expClaim.val
        => expirationStatus.status # "expired"
    /\ tab = 0 /\ Truthy(nbfClaim) /\ expirationNow = nbfClaim.val
        => expirationStatus.status # "notyet"

\* C2, amended: the comparisons are strict, so at now = exp no evaluator says
\* expired and at now = nbf checkTokenExpiration never says not yet valid;
\* getStatus says not yet valid at now = nbf only for an iat in the future
C2_Strict ==
    /\ tab = 4 /\ Truthy(expClaim) /\ statusNow = expClaim.val
        => status # "expired"
    /\ tab = 4 /\ Truthy(nbfClaim) /\ statusNow = nbfClaim.val
            /\ status = "not yet valid"
        => IatRule
    /\ tab = 0 /\ Truthy(expClaim) /\ expirationNow = expClaim.val
        => expirationStatus.status # "expired"
    /\ tab = 0 /\ Truthy(nbfClaim) /\ expirationNow = nbfClaim.val
        => expirationStatus.status # "notyet"

C2_Witness ==
    /\ tab = 4
    /\ Truthy(expClaim)
    /\ statusNow = expClaim.val
    /\ nbfClaim = expClaim
    /\ status = "active"

\* a claim of 0 read as a missing claim
ZeroAsAbsent(v) == IF v = JsNum(0) THEN JsUndefined ELSE v

\* C3: a time claim of 0 counts as an absent one: the status, the summary and
\* the min, max and percents of the timeline are those of the payload with
\* the claims of 0 left out
C3_ZeroIsAbsent ==
    tab = 4 =>
        /\ status = getStatus(ZeroAsAbsent(iatClaim), ZeroAsAbsent(nbfClaim),
                              ZeroAsAbsent(expClaim), statusNow)
        /\ timeline = timelineOf(ZeroAsAbsent(iatClaim), ZeroAsAbsent(nbfClaim),
                                 ZeroAsAbsent(expClaim), currentTime)
        /\ timeRemaining = timeRemainingOf(payload, status, currentTime,
                                           ZeroAsAbsent(expClaim),
                                           ZeroAsAbsent(nbfClaim),
                                           ZeroAsAbsent(iatClaim))

C3_Witness ==
    /\ tab = 4
    /\ expClaim = JsNum(0)
    /\ iatClaim = JsNum(0)
    /\ statusNow > 0
    /\ status = "active"
    /\ timeRemaining = NoSummary

\* C9: the summary of a decoded payload is Expired with now - exp, negative,
\* when the status is expired; Valid in with (nbf when present, else iat)
\* - now when it is not yet valid; Expires in with exp - now when it is active
\* and exp is present; none otherwise and for a null payload; the claims
\* iat 1000, nbf 1000, exp 2000 at 2500 give Expired, 8 minutes, negative
C9_Summary ==
    tab = 4 =>
        /\ ~Truthy(payload) => timeRemaining.isNull
        /\ Truthy(payload) /\ status = "expired" =>
            /\ ~timeRemaining.isNull
            /\ timeRemaining.label = "Expired"
            /\ timeRemaining.seconds = currentTime - expClaim.val
            /\ timeRemaining.negative
        /\ Truthy(payload) /\ status = "not yet valid" =>
            /\ ~timeRemaining.isNull
            /\ timeRemaining.label = "Valid in"
            /\ timeRemaining.seconds =
                 (IF Truthy(nbfClaim) THEN nbfClaim.val ELSE iatClaim.val)
                 - currentTime
            /\ ~timeRemaining.negative
        /\ Truthy(payload) /\ status = "active" /\ Truthy(expClaim) =>
            /\ ~timeRemaining.isNull
            /\ timeRemaining.label = "Expires in"
            /\ timeRemaining.seconds = expClaim.val - currentTime
            /\ ~timeRemaining.negative
        /\ status = "active" /\ ~Truthy(expClaim) => timeRemaining.isNull
        /\ payload = ScenarioD /\ currentTime = 2500 /\ statusNow = 2500 =>
            /\ timeRemaining.label = "Expired"
            /\ timeRemaining.value = [count |-> 8, unit |-> "minutes"]
            /\ timeRemaining.negative

C9_Witness ==
    /\ tab = 4
    /\ payload = ScenarioD
    /\ currentTime = 2500
    /\ status = "expired"
    /\ timeRemaining.value = [count |-> 8, unit |-> "minutes"]

\* C10: whenever a summary is produced, the seconds handed to formatDuration
\* are not negative
C10_NonNegative == tab = 4 /\ ~timeRemaining.isNull => timeRemaining.seconds >= 0

\* C11: for a second count s that is not negative, formatDuration renders s
\* seconds below 60, floor(s/60) minutes below 3600, floor(s/3600) hours
\* below 86400 and floor(s/86400) days from there on, truncating
C11_Truncates ==
    tab = 4 /\ ~timeRemaining.isNull /\ timeRemaining.seconds >= 0 =>
        /\ timeRemaining.seconds < 60 =>
            timeRemaining.value =
                [count |-> timeRemaining.seconds, unit |-> "seconds"]
        /\ timeRemaining.seconds \in 60..3599 =>
            timeRemaining.value =
                [count |-> timeRemaining.seconds \div 60, unit |-> "minutes"]
        /\ timeRemaining.seconds \in 3600..86399 =>
            timeRemaining.value =
                [count |-> timeRemaining.seconds \div 3600, unit |-> "hours"]
        /\ timeRemaining.seconds >= 86400 =>
            timeRemaining.value =
                [count |-> timeRemaining.seconds \div 86400, unit |-> "days"]
        /\ timeRemaining.seconds = 119 =>
            timeRemaining.value = [count |-> 1, unit |-> "minutes"]
        /\ timeRemaining.seconds = 3599 =>
            timeRemaining.value = [count |-> 59, unit |-> "minutes"]
        /\ timeRemaining.seconds = 86399 =>
            timeRemaining.value = [count |-> 23, unit |-> "hours"]

C11_Witness ==
    /\ tab = 4
    /\ timeRemaining.label = "Expires in"
    /\ timeRemaining.seconds = 86399
    /\ timeRemaining.value = [count |-> 23, unit |-> "hours"]

\* the percents of the markers the timeline renders: iat, nbf and exp when
\* truthy, now always, all inside {payload && (...)}
RenderedPercents ==
    IF ~Truthy(payload) THEN {}
    ELSE {timeline.now}
         \cup (IF Truthy(iatClaim) THEN {timeline.iat} ELSE {})
         \cup (IF Truthy(nbfClaim) THEN {timeline.nbf} ELSE {})
         \cup (IF Truthy(expClaim) THEN {timeline.exp} ELSE {})

\* C12: every position percent computes for a rendered marker is an integer
\* in 0..100, and the width percent(exp) - percent(nbf) of the bar of the
\* active period is never negative
C12_PercentInRange ==
    tab = 4 =>
        /\ \A pc \in RenderedPercents : pc.kind = "number" /\ pc.val \in 0..100
        /\ Truthy(payload) /\ Truthy(nbfClaim) /\ Truthy(expClaim)
            /\ timeline.exp.kind = "number" /\ timeline.nbf.kind = "number"
            => timeline.exp.val - timeline.nbf.val >= 0

\* C13: a token whose payload does not decode (null) has the status invalid,
\* and no status active, expired or not yet valid is computed for it
C13_NullIsInvalid ==
    /\ tab = 0 /\ jwt # <<>> /\ payload = JsNull
        => expirationStatus.status = "invalid"
    /\ tab = 4 /\ jwt # <<>> /\ payload = JsNull
        => status \notin {"active", "expired", "not yet valid"}

(***************************************************************************)
(* verifyJwt and generateJwt.                                              *)
(***************************************************************************)
Unsupported == "Unsupported algorithm"

HasPrefix(a) ==
    StartsWith(a, PrefixHS) \/ StartsWith(a, PrefixRS) \/ StartsWith(a, PrefixES)

\* both texts of the last generateJwt call are JSON
TextsParse == JsonParse(lastCall.header).ok /\ JsonParse(lastCall.payload).ok

\* C14 as stated: for every identifier other than the nine, verifyJwt and
\* generateJwt fail with the reason "Unsupported algorithm" and make no
\* provider call
C14_OnlyTheNine ==
    lastCall.alg \notin SupportedIdentifiers =>
        /\ lastCall.fn = "verifyJwt" =>
              /\ ~lastCall.verified.valid
              /\ lastCall.verified.reason = Unsupported
              /\ lastCall.verified.calls = <<>>
        /\ lastCall.fn = "generateJwt" =>
              /\ lastCall.generated.hasError
              /\ lastCall.generated.error = Unsupported
              /\ lastCall.generated.calls = <<>>

\* C14, amended: verifyJwt fails with the reason "Unsupported algorithm",
\* having made no provider call, exactly for the identifiers that begin
\* with none of HS, RS and ES; and so does generateJwt when its header and
\* payload texts are JSON
C14_PrefixGate ==
    /\ lastCall.fn = "verifyJwt" =>
          /\ ~HasPrefix(lastCall.alg) =>
                /\ ~lastCall.verified.valid
                /\ lastCall.verified.reason = Unsupported
                /\ lastCall.verified.calls = <<>>
          /\ HasPrefix(lastCall.alg) =>
                /\ lastCall.verified.reason # Unsupported
                /\ lastCall.verified.calls # <<>>
    /\ lastCall.fn = "generateJwt" /\ TextsParse =>
          /\ ~HasPrefix(lastCall.alg) =>
                /\ lastCall.generated.hasError
                /\ lastCall.generated.error = Unsupported
                /\ lastCall.generated.calls = <<>>
          /\ HasPrefix(lastCall.alg) => lastCall.generated.error # Unsupported

\* verifyJwt was called with PS256 and generateJwt with none
C14_Witness ==
    \/ /\ lastCall.fn = "verifyJwt"
       /\ lastCall.alg = <<80, 83, 50, 53, 54>>
       /\ lastCall.verified.reason = Unsupported
    \/ /\ lastCall.fn = "generateJwt"
       /\ lastCall.alg = <<110, 111, 110, 101>>
       /\ TextsParse
       /\ lastCall.generated.error = Unsupported

\* the reason made of a thrown value: its message, or "Unknown error"
IsReasonOf(reason, outcome) ==
    /\ ~outcome.ok
    /\ outcome.thrown.kind \in {"Error", "string"} => reason = outcome.thrown.message
    /\ outcome.thrown.kind = "other" => reason = "Unknown error"

\* C15: verifyJwt and generateJwt never reject; a failure of JSON parsing or
\* of the provider becomes {valid: false, reason} or {error}, the reason
\* being the thrown message or "Unknown error"; verifyJwt returns valid:
\* true only when jwtVerify completed without failure
C15_NeverRejects ==
    /\ lastCall.fn = "verifyJwt" =>
          /\ ~lastCall.verified.rejected
          /\ lastCall.verified.valid =>
                /\ lastCall.provided.ok
                /\ lastCall.verified.calls # <<>>
                /\ lastCall.verified.calls[Len(lastCall.verified.calls)].fn = "jwtVerify"
          /\ ~lastCall.verified.valid =>
                \/ lastCall.verified.reason = Unsupported
                \/ IsReasonOf(lastCall.verified.reason, lastCall.imported)
                \/ IsReasonOf(lastCall.verified.reason, lastCall.provided)
    /\ lastCall.fn = "generateJwt" =>
          /\ ~lastCall.generated.rejected
          /\ lastCall.generated.hasError # lastCall.generated.hasJwt
          /\ ~TextsParse => lastCall.generated.hasError
          /\ ~lastCall.provided.ok => lastCall.generated.hasError
          /\ lastCall.generated.hasError =>
                \/ lastCall.generated.error \in
                      {Unsupported, "Unexpected token in JSON",
                       "JWT Claims Set MUST be an object"}
                \/ IsReasonOf(lastCall.generated.error, lastCall.imported)
                \/ IsReasonOf(lastCall.generated.error, lastCall.provided)

\* jwtVerify threw a value that is neither an Error nor a string, and
\* verifyJwt returned the reason "Unknown error"
C15_Witness ==
    /\ lastCall.fn = "verifyJwt"
    /\ lastCall.alg = <<72, 83, 50, 53, 54>>
    /\ ~lastCall.provided.ok
    /\ lastCall.provided.thrown.kind = "other"
    /\ ~lastCall.verified.valid
    /\ lastCall.verified.reason = "Unknown error"

(***************************************************************************)
(* KeyGenerator.                                                           *)
(***************************************************************************)
\* C16 as stated: handleGenSym, handleGenRsa and handleGenEc end with a
\* result or an error outcome, never with an exception that leaves the
\* handler or a promise that rejects
C16_NeverThrows ==
    /\ keyGenerator.outcome \notin {"exception", "rejected"}
    /\ tab = 3 => ~thrown

(***************************************************************************)
(* TokenEncoder.                                                           *)
(***************************************************************************)
\* C17 as stated: after any change to the header, payload, secret or
\* algorithm input the displayed token is recomputed from the current
\* inputs, so a displayed token always corresponds to the current inputs
C17_AutoUpdate ==
    tokenEncoder.shown => tokenEncoder.tokenFor = encoderArgs(tokenEncoder)

(***************************************************************************)
(* TokenDecoder of README.md: the expiration badge, the algorithm, the     *)
(* verification.                                                           *)
(***************************************************************************)
\* C18 as stated: at every moment the badge of the decoder is the
\* classification of the current token against the current time, also when
\* the clock passes exp or nbf while the token is unchanged
C18_RealTime ==
    tab = 0 /\ jwt # <<>> => expirationStatus = checkTokenExpiration(jwt, wallClock)

\* the alg of the header h is a string of the decoder's algorithm list
ListedAlg(h) ==
    /\ GetProp(h, KeyAlg).kind = "string"
    /\ GetProp(h, KeyAlg).val \in ALGORITHMS

\* C19: when the token changes to one whose decoded header carries an alg
\* of the decoder's list, the selected algorithm becomes that alg, whatever
\* was selected before; when the header is null or its alg is not in the
\* list, the selected algorithm is left unchanged
C19_AutoDetect ==
    [][tab = 0 /\ tab' = 0 /\ jwt' # jwt =>
          /\ ListedAlg(header') => alg' = GetProp(header', KeyAlg).val
          /\ ~ListedAlg(header') => alg' = alg]_vars

\* the token whose header names ES256 was entered and ES256 is selected,
\* with a key typed
C19_Witness ==
    /\ tab = 0
    /\ jwt # <<>>
    /\ GetProp(header, KeyAlg) = JsStr(<<69, 83, 50, 53, 54>>)
    /\ alg = <<69, 83, 50, 53, 54>>
    /\ verification.key # <<>>

\* C20 as stated: in every interleaving of input changes and verification
\* completions, a verificationResult that is displayed was computed for the
\* current (jwt, key, alg), and none is displayed while jwt or key is empty
C20_LastWriteWins ==
    tab = 0 /\ verification.result.shown =>
        /\ verification.result.computedFor = Closure(jwt, verification.key, alg)
        /\ jwt # <<>>
        /\ verification.key # <<>>

(***************************************************************************)
(* The interval of LifetimeVisualizer.                                     *)
(***************************************************************************)
\* C21: at every moment the number of intervals that are set is the number
\* of mounted LifetimeVisualizer instances, 1 on the Visualize tab and 0 on
\* the others, and while the view is not mounted no tick updates
\* currentTime
C21_ScopedInterval ==
    /\ [](intervals = IF tab = 4 THEN 1 ELSE 0)
    /\ [][tab # 4 /\ tab' # 4 => currentTime' = currentTime]_vars

\* the view is mounted with its one interval, and a tick has brought
\* currentTime to the second 2 of the clock
C21_Witness ==
    /\ tab = 4
    /\ intervals = 1
    /\ jwt # <<>>
    /\ wallClock = 2
    /\ currentTime = 2

\* C22 as stated: in every rendered state of the lifetime view the status
\* is the decision function applied to the payload's claims and the
\* sampled currentTime, the now of the summary and of the timeline
C22_StatusOfSampledNow ==
    tab = 4 =>
        /\ statusNow = currentTime
        /\ status = getStatus(GetProp(payload, KeyIat), GetProp(payload, KeyNbf),
                              GetProp(payload, KeyExp), currentTime)

\* C23 as stated: when min = max, percent is 0 for every point of a
\* rendered timeline, the now marker included, and no position is NaN
C23_DegenerateIsZero ==
    tab = 4 /\ Truthy(payload) /\ timeline.min = timeline.max =>
        /\ timeline.now = JsNum(0)
        /\ timeline.iat = JsNum(0)
        /\ timeline.nbf = JsNum(0)
        /\ timeline.exp = JsNum(0)

\* C24: the one pending timer is of the current (jwt, key, alg), with jwt
\* and key not empty and a token of three parts, every change of them
\* having cancelled the timer before; a verification is started by that
\* timer only, for exactly these inputs; the timer ends, and while the
\* inputs are unchanged it ends only by starting that verification
C24_Debounced ==
    /\ [](tab = 0 /\ verification.timer # <<>> =>
            /\ Len(verification.timer) = 1
            /\ verification.timer[1] = Closure(jwt, verification.key, alg)
            /\ jwt # <<>>
            /\ verification.key # <<>>
            /\ DotCount(jwt) = 2)
    /\ [][verification'.inFlight \ verification.inFlight # {} =>
            /\ verification.timer # <<>>
            /\ verification'.timer = <<>>
            /\ verification'.inFlight \ verification.inFlight
                 = {Closure(jwt, verification.key, alg)}
            /\ UNCHANGED <<jwt, alg>>
            /\ verification'.key = verification.key]_vars
    /\ [][/\ verification.timer # <<>>
            /\ verification'.timer = <<>>
            /\ UNCHANGED <<tab, jwt, alg>>
            /\ verification'.key = verification.key
            => verification.timer[1] \in verification'.inFlight]_vars
    /\ (tab = 0 /\ verification.timer # <<>>) ~> (verification.timer = <<>>)

\* a timer is pending for the token whose header names ES256, the key k
\* and ES256, while an earlier verification is in flight
C24_Witness ==
    /\ tab = 0
    /\ verification.timer =
          <<Closure(jwt, <<107>>, <<69, 83, 50, 53, 54>>)>>
    /\ GetProp(header, KeyAlg) = JsStr(<<69, 83, 50, 53, 54>>)
    /\ verification.inFlight # {}

(***************************************************************************)
(* App: the menu, the tab, the theme.                                      *)
(***************************************************************************)
\* C28 as stated: after any tab button of the mobile menu is activated the
\* menu is closed once the effects have run; the tab index stays in the
\* range of TABS; toggling the theme leaves the tab and the menu unchanged
C28_AnyTabButtonCloses ==
    /\ [](menuTabActivated => ~mobileMenuOpen)
    /\ [](tab \in 0..4)
    /\ [][isDark' # isDark => UNCHANGED <<tab, mobileMenuOpen>>]_vars

\* C28, amended: the menu is closed after every change of the tab; the
\* tab button of the selected tab leaves the menu as it is; the tab index
\* stays in the range of TABS; toggling the theme leaves the tab and the
\* menu unchanged
C28_ClosesOnTabChange ==
    /\ [][tab' # tab => ~mobileMenuOpen']_vars
    /\ [][menuTabActivated' /\ tab' = tab /\ mobileMenuOpen
            => mobileMenuOpen']_vars
    /\ [](tab \in 0..4)
    /\ [][isDark' # isDark => UNCHANGED <<tab, mobileMenuOpen>>]_vars

\* a tab button of the menu has switched to the Keys tab and the menu is
\* closed, in the light theme
C28_Witness ==
    /\ menuTabActivated
    /\ tab = 3
    /\ ~mobileMenuOpen
    /\ ~isDark

(***************************************************************************)
(* TokenEncoder: the token and the error.                                  *)
(***************************************************************************)
\* C25 as stated: in every interleaving of handleGenerate invocations the
\* encoder shows at most one of the token and the error
C25_TokenOrError ==
    tab = 1 => ~(tokenEncoder.shown /\ tokenEncoder.error # "")

(***************************************************************************)
(* checkTokenExpiration and getStatus.                                     *)
(***************************************************************************)
\* expired <-> expired, notyet <-> not yet valid, valid <-> active
Corresponds(e, s) ==
    \/ e = "expired" /\ s = "expired"
    \/ e = "notyet" /\ s = "not yet valid"
    \/ e = "valid" /\ s = "active"

\* iat is in the future of now, while exp has not passed and nbf is not in
\* the future
OnlyIatAhead(now) ==
    /\ Truthy(iatClaim) /\ iatClaim.val > now
    /\ ~(Truthy(expClaim) /\ expClaim.val < now)
    /\ ~(Truthy(nbfClaim) /\ nbfClaim.val > now)

\* C26: for an object payload, checkTokenExpiration at the now of the
\* view's getStatus call gives the status that corresponds to the one
\* getStatus computed, except when iat is in the future while exp has not
\* passed and nbf is not in the future: then getStatus gives not yet valid
\* and checkTokenExpiration valid
C26_SameClassification ==
    tab = 4 /\ jwt # <<>> /\ payload.kind = "object" =>
        IF OnlyIatAhead(statusNow)
        THEN /\ status = "not yet valid"
             /\ checkTokenExpiration(jwt, statusNow).status = "valid"
        ELSE Corresponds(checkTokenExpiration(jwt, statusNow).status, status)

\* a payload with iat 3 and exp 2 read at the second 2: both say that the
\* token has not expired, and only getStatus that it is not yet valid
C26_Witness ==
    /\ tab = 4
    /\ payload.kind = "object"
    /\ iatClaim = JsNum(3)
    /\ expClaim = JsNum(2)
    /\ statusNow = 2
    /\ status = "not yet valid"
    /\ checkTokenExpiration(jwt, statusNow).status = "valid"

(***************************************************************************)
(* The algorithm selected in the decoder.                                  *)
(***************************************************************************)
\* C27: in the decoder the selected algorithm is always one of ALGORITHMS,
\* and so is the algorithm of every handleVerify that is pending, of every
\* verifyJwt call in flight and of every result displayed; a step of
\* clearAll leaves the selection as it was
C27_AlgIsListed ==
    /\ [](tab = 0 =>
            /\ alg \in ALGORITHMS
            /\ \A i \in 1..Len(verification.timer) :
                  verification.timer[i].alg \in ALGORITHMS
            /\ \A c \in verification.inFlight : c.alg \in ALGORITHMS
            /\ verification.result.shown =>
                  verification.result.computedFor.alg \in ALGORITHMS)
    /\ [][Readme_clearAll => alg' = alg]_vars

\* the token whose header names none is in the decoder, RS256 was selected
\* by hand, and verifyJwt is running for both
C27_Witness ==
    /\ tab = 0
    /\ GetProp(header, KeyAlg) = JsStr(<<110, 111, 110, 101>>)
    /\ alg = <<82, 83, 50, 53, 54>>
    /\ verification.inFlight = {Closure(jwt, verification.key, alg)}

(***************************************************************************)
(* The length of a generated secret.                                       *)
(***************************************************************************)
\* C29 as stated: whenever handleGenSym runs, symLen is within 8..128 and
\* the secret it sets encodes symLen bytes (two characters a byte in hex),
\* so that it is not empty
C29_LengthInRange ==
    [][handleGenSym =>
          /\ 8 <= keyGenerator.symLen
          /\ keyGenerator.symLen <= 128
          /\ keyGenerator'.outcome = "result"
          /\ keyGenerator.symFormat = "hex" =>
                keyGenerator'.symKey.chars = 2 * keyGenerator.symLen
          /\ keyGenerator'.symKey.chars > 0]_vars

(***************************************************************************)
(* The strength of a secret.                                               *)
(***************************************************************************)
\* the three cases of the classification
Classified(strength, entropy, length) ==
    /\ strength = "Weak" <=> (length < 8 \/ entropy < 30)
    /\ strength = "Strong" <=> (length >= 16 /\ entropy >= 60)
    /\ strength = "Medium" <=> (~(length < 8 \/ entropy < 30)
                                 /\ ~(length >= 16 /\ entropy >= 60))

\* the number of distinct characters of str
Distinct(str) == Cardinality({str[i] : i \in 1..Len(str)})

\* C30: getStrength returns Weak iff length < 8 or entropy < 30, Strong iff
\* length >= 16 and entropy >= 60, and Medium otherwise, called on its own
\* and in the render of the checker; the empty secret and a secret of one
\* repeated character have the entropy 0 and are Weak at every length
C30_Strength ==
    /\ lastCall.fn = "getStrength" =>
          Classified(lastCall.strength, lastCall.entropy, lastCall.length)
    /\ tab = 2 =>
          /\ strengthChecker.length = Len(strengthChecker.secret)
          /\ Classified(strengthChecker.strength, strengthChecker.entropy,
                        strengthChecker.length)
          /\ Distinct(strengthChecker.secret) <= 1 =>
                strengthChecker.entropy = 0 /\ strengthChecker.strength = "Weak"
          /\ Distinct(strengthChecker.secret) = 2 =>
                strengthChecker.entropy = strengthChecker.length

\* a secret of 16 times the same character is Weak, and getStrength said
\* Medium for the entropy 60 and the length 15
C30_Witness ==
    /\ tab = 2
    /\ strengthChecker.length = 16
    /\ Distinct(strengthChecker.secret) = 1
    /\ strengthChecker.strength = "Weak"
    /\ lastCall.fn = "getStrength"
    /\ lastCall.entropy = 60
    /\ lastCall.length = 15
    /\ lastCall.strength = "Medium"

====
